---------------------------- MODULE Spec2Model ----------------------------
(***************************************************************************)
(* A model of the relation engine of ormlite: the many-to-many             *)
(* synchronizer (upsert.go), the depth-bounded relation loader             *)
(* (ormlite.go) and the row-level write operations.                        *)
(*                                                                         *)
(* The database is modelled by the contents of its tables.  Every SQL      *)
(* statement the code executes is one atomic step; what the code computes  *)
(* between two statements is folded into the step that follows.            *)
(***************************************************************************)
EXTENDS Integers, Sequences, FiniteSets, TLC

(***************************************************************************)
(* Bounds of the model.                                                    *)
(***************************************************************************)
MaxTarget == 2
MaxDesired == 2
MaxInitRows == 2
MaxNode == 2
MaxDepth == 3
MaxPeers == 1
MaxVal == 2
MaxOps == 3
MaxChildren == 2
MaxReads == 2
MaxTag == 2
MaxItems == 2
MaxKey == 2
MaxStored == 2

\* identities of the parent records that own junction rows
Parents == {1, 2}
\* identities of the related records
Targets == 1..MaxTarget
\* the goroutines that may run a synchronization
Procs == {1, 2}

(***************************************************************************)
(* Values.  A Go value held in an interface{} is its dynamic type and its  *)
(* value: two interface values are equal only when both agree.  A SQL      *)
(* value is its storage class and its value.                               *)
(***************************************************************************)
IntKinds == {"int64", "int"}

SqlNull == <<"null", 0>>
SqlInt(n) == <<"int", n>>
\* text 1 is the text a, text 2 is the text "a" (the quote characters included)
SqlText(k) == <<"text", k>>

\* the condition: setting of a many_to_many tag: absent, col=<integer>,
\* col='a' or col="a"
NoCondition == <<"none", 0>>
Conditions == {NoCondition, <<"int", 0>>, <<"int", 1>>, <<"sq", 1>>, <<"dq", 1>>}

\* the values the condition column of a junction table may hold
ConditionColumn(cond) ==
    IF cond = NoCondition THEN {SqlNull}
    ELSE {SqlInt(0), SqlInt(1), SqlText(1), SqlText(2)}

JRow(m, rel, c) == [m |-> m, rel |-> rel, c |-> c]
JRows(cond) == {JRow(m, rel, c) : m \in Parents, rel \in Targets, c \in ConditionColumn(cond)}
AllJRows == UNION {JRows(cond) : cond \in Conditions}

VARIABLES
    pkKind,     \* declared Go type of the related record's primary field
    condition,  \* condition: setting of the many-to-many field
    junction,   \* junction table: row -> number of copies stored
    procs,      \* goroutines running inserter.syncManyToManyRelation
    pc,         \* position of each goroutine in syncManyToManyRelation
    parent,     \* primary key of the record each goroutine synchronizes
    related,    \* the record's many-to-many collection: identities, in order
    refValues,  \* getRelationMapping's result: keys of the in-memory collection
    idx,        \* index of the first loop of syncManyToManyRelation
    mapping,    \* the map returned by getStoredRelations, then marked
    visited,    \* keys the second loop (range mapping) has visited
    err,        \* what the call returned: "" while running, "nil", or the error
    log,        \* statements each goroutine executed in its current call
    calls,      \* calls each goroutine has begun
    before,     \* history: the junction table as the call's select saw it
    order,      \* history: the goroutines in the order their calls began
    overlap     \* history: a call began while another was under way

syncVars == <<pkKind, condition, junction, procs, pc, parent, related, refValues,
              idx, mapping, visited, err, log, calls, before, order, overlap>>

VARIABLES
    rel_id,         \* table nodes: rowid -> the has-one column rel_id
    peers,          \* junction table of the self many-to-many: <<m_id, rel_id>>
    RelationDepth,  \* Options.RelationDepth the caller passed
    stack,          \* the calls of QueryStructContext / QuerySliceCountContext
                    \* that are to run, the next one first
    loaded,         \* the result so far: path of the object -> rowid scanned
    selects         \* history: the relation queries executed so far (selects
                    \* on the junction, of targets and by back-reference)

loadVars == <<rel_id, peers, RelationDepth, stack, loaded, selects>>

VARIABLES
    decl,             \* the declaration of the record type that is written
    table,            \* the rows of its table
    lastInsertRowid,  \* the connection's sqlite3_last_insert_rowid
    arg,              \* the record as it was passed to the last operation
    m,                \* the record after the last operation
    werr,             \* what the last operation returned
    stmts,            \* the statements the last operation executed
    prev,             \* history: the table before the last operation
    lastOp,           \* the last operation
    nOps,             \* operations so far
    read              \* what the last full-table QuerySlice returned

writeVars == <<decl, table, lastInsertRowid, arg, m, werr, stmts, prev, lastOp,
               nOps, read>>

VARIABLES
    keyKind,     \* the primary key of the parent type: int64, text or composite
    children,    \* table of the target type: rowid -> back-reference column
    hmDepth,     \* Options.RelationDepth of the read of the parent
    hmParent,    \* the primary fields of the parent record that was read
    hmPc,        \* position of the read: "query", "relations", "done"
    hmLoaded     \* the rows loaded into the parent's has-many collection

hmVars == <<keyKind, children, hmDepth, hmParent, hmPc, hmLoaded>>

VARIABLES
    rkind,       \* what each reading goroutine calls: QueryStruct or QuerySlice
    sharedOpts,  \* the goroutines pass the same *Options
    rpc,         \* position of each reading goroutine in its call
    srcState,    \* the package-level rand source src: values drawn so far
    held,        \* the state of src each goroutine loaded in src.Int63
    rres,        \* what each call returned
    rcalls       \* calls each goroutine has finished

readVars == <<rkind, sharedOpts, rpc, srcState, held, rres, rcalls>>

VARIABLES
    nstore,      \* the tables of the nested records and their junction tables
    ncall        \* the Upsert of a record with nested records: the
                 \* declaration of the has-one target, the record as passed,
                 \* the record afterwards, and the tables before the call

nestedVars == <<nstore, ncall>>

VARIABLES
    trip         \* a record with a many-to-many collection that is written
                 \* and read back: the declaration, the junction table, the
                 \* record's primary key, its collection, what was read

tripVars == <<trip>>

VARIABLES
    report       \* one operation whose statements may fail: the operation,
                 \* its bound values, the statements executed so far and
                 \* what the operation returned

VARIABLES
    query        \* one read with search options: the operation, the table,
                 \* the Options as the caller passed them and as they are
                 \* after the call, and what the call returned

VARIABLES
    reload       \* a record instance that is loaded more than once: the
                 \* stored links and children of its row, its collections,
                 \* the collections after the first load, the loads so far

VARIABLES
    graph        \* records that point to one another by has-one fields and
                 \* the Upsert of one of them: the pointers, the primary
                 \* keys, the calls of insert that have not returned, the
                 \* statements executed for every record

VARIABLES
    nilcall      \* a read whose Options may be nil: the relation fields of
                 \* the record type, what is stored for the record that is
                 \* read, the operation, the Options, and what was loaded

callVars == <<report, query, reload, graph, nilcall>>

vars == <<syncVars, loadVars, writeVars, hmVars, readVars, nestedVars, tripVars,
          callVars>>

notSync == <<loadVars, writeVars, hmVars, readVars, nestedVars, tripVars, callVars>>
notLoad == <<syncVars, writeVars, hmVars, readVars, nestedVars, tripVars, callVars>>
notWrite == <<syncVars, loadVars, hmVars, readVars, nestedVars, tripVars, callVars>>
notHm == <<syncVars, loadVars, writeVars, readVars, nestedVars, tripVars, callVars>>
notRead == <<syncVars, loadVars, writeVars, hmVars, nestedVars, tripVars, callVars>>
notNested == <<syncVars, loadVars, writeVars, hmVars, readVars, tripVars, callVars>>
notTrip == <<syncVars, loadVars, writeVars, hmVars, readVars, nestedVars, callVars>>
notReport == <<syncVars, loadVars, writeVars, hmVars, readVars, nestedVars, tripVars>>

\* no operation is being examined for what it reports
IdleReport ==
    report = [op |-> "none", values |-> <<>>, tableName |-> "", at |-> 0,
              ret |-> <<"running">>]

\* no read with search options is made
IdleQuery ==
    query = [op |-> "none", pc |-> "idle", table |-> {}, linked |-> {},
             opts |-> <<>>, after |-> <<>>, rows |-> {}, n |-> 0, err |-> ""]

\* no instance is loaded again
IdleReload ==
    reload = [links |-> {}, kids |-> {}, depth |-> 0, peers |-> <<>>,
              children |-> <<>>, first |-> <<>>, loads |-> 0, err |-> ""]

\* no graph of records is written
IdleGraph ==
    graph = [one |-> <<>>, pk |-> <<>>, stack |-> <<>>, inserted |-> <<>>,
             state |-> "idle"]

\* no read with nil Options is made
IdleNilCall ==
    nilcall = [fields |-> {}, stored |-> {}, op |-> "none", opts |-> <<>>,
               loaded |-> {}, err |-> ""]

IdleCall == IdleReport /\ IdleQuery /\ IdleReload /\ IdleGraph /\ IdleNilCall

\* no collection is written and read back
IdleTrip ==
    trip = [decl |-> "scalar", pc |-> "idle", J |-> {}, before |-> {}, P |-> <<>>,
            D |-> {}, got |-> {}, err |-> ""]

\* the record types of the nested write: main_model with a has-one to
\* base_model, a has-many of has_many_model and a many-to-many
NestedTypes == {"main", "base", "item"}

\* empty tables
EmptyStore == [rows |-> [t \in NestedTypes |-> {}], links |-> {}]

\* no record with nested records has been written
IdleNested ==
    /\ nstore = EmptyStore
    /\ ncall = [decl |-> "int64", done |-> FALSE, arg |-> <<>>, out |-> <<>>,
                before |-> EmptyStore]

(***************************************************************************)
(* Helpers of the model.                                                   *)
(***************************************************************************)
RECURSIVE SubsetsUpTo(_, _)
SubsetsUpTo(S, n) ==
    IF n = 0 THEN {{}}
    ELSE LET smaller == SubsetsUpTo(S, n - 1)
         IN  smaller \cup {T \cup {x} : T \in smaller, x \in S}

SeqsUpTo(S, n) == UNION {[1..k -> S] : k \in 0..n}

EmptyMap == [k \in {} |-> FALSE]

TableOf(T) == [r \in AllJRows |-> IF r \in T THEN 1 ELSE 0]

RECURSIVE SumOver(_, _)
SumOver(f, S) ==
    IF S = {} THEN 0
    ELSE LET x == CHOOSE y \in S : TRUE IN f[x] + SumOver(f, S \ {x})

(***************************************************************************)
(* The pure functions of the write path.                                   *)
(***************************************************************************)
\* upsert.go sliceAsArray: the slice as an array of interface values, each
\* element keeping its dynamic type (a pointer element is dereferenced)
sliceAsArray(s) == [i \in 1..Len(s) |-> s[i]]

\* getModelPkKeys: the primary field's value as the interface value
\* field.value.Interface(), of the declared type of the field
getModelPkKeys(o) == << <<pkKind, o>> >>

\* getRelationMapping: the keys of every element of the collection, in order
getRelationMapping(value) == [i \in 1..Len(value) |-> getModelPkKeys(value[i])]

\* rows.Scan into new(interface{}): the driver hands an INTEGER column back
\* as an int64
ScanKeys(r) == << <<"int64", r.rel>> >>

\* extractConditionValue: the column named by the condition and the value
\* bound for it; cast.ToInt64 of text that is no number is 0, and
\* cast.ToString keeps the quote characters
extractConditionValue(s) ==
    CASE s[1] = "none" -> [field |-> "", value |-> SqlNull]
      [] s[1] = "int"  -> [field |-> "c", value |-> SqlInt(s[2])]
      [] s[1] = "sq"   -> [field |-> "c", value |-> SqlInt(0)]
      [] s[1] = "dq"   -> [field |-> "c", value |-> SqlText(2)]

\* the condition as the database evaluates it where buildJoinQuery puts it
\* verbatim into the where clause
ConditionHolds(s, c) ==
    CASE s[1] = "none" -> TRUE
      [] s[1] = "int"  -> c = SqlInt(s[2])
      [] s[1] = "sq"   -> c = SqlText(s[2])
      [] s[1] = "dq"   -> c = SqlText(s[2])

\* buildJoinQuery: the junction rows of the parent, under the condition
buildJoinQuery(P) == {r \in AllJRows : r.m = P /\ ConditionHolds(condition, r.c)}

\* getStoredRelations: the scanned keys of the rows the join query returns,
\* each mapped to false
getStoredRelations(P) ==
    LET rows == {r \in buildJoinQuery(P) : junction[r] > 0}
    IN  [k \in {sliceAsArray(ScanKeys(r)) : r \in rows} |-> FALSE]

\* buildInsertRelationQuery: the row the insert statement writes
buildInsertRelationQuery(keys, P) ==
    LET cv == extractConditionValue(condition)
    IN  JRow(P, keys[1][2], IF cv.field # "" THEN cv.value ELSE SqlNull)

\* buildDeleteRelationQuery: the rows the delete statement removes
buildDeleteRelationQuery(keys, P) ==
    LET cv == extractConditionValue(condition)
    IN  {r \in AllJRows : /\ r.rel = keys[1][2]
                          /\ r.m = P
                          /\ (cv.field # "" => r.c = cv.value)}

(***************************************************************************)
(* inserter.syncManyToManyRelation, one step per statement.                *)
(***************************************************************************)
\* getRelationMapping, then getStoredRelations: the select on the junction
GetStoredRelations(p) ==
    /\ p \in procs
    /\ pc[p] = "start"
    /\ refValues' = [refValues EXCEPT ![p] = getRelationMapping(related[p])]
    /\ mapping' = [mapping EXCEPT ![p] = getStoredRelations(parent[p])]
    /\ idx' = [idx EXCEPT ![p] = 1]
    /\ pc' = [pc EXCEPT ![p] = "insert"]
    /\ before' = [before EXCEPT ![p] = junction]
    /\ order' = Append(order, p)
    /\ overlap' = (overlap \/ \E q \in procs \ {p} : pc[q] \in {"insert", "delete"})
    /\ UNCHANGED notSync
    /\ UNCHANGED <<pkKind, condition, junction, procs, parent, related, visited,
                   err, log, calls>>

\* one iteration of the loop over refValues: a key missing from mapping is
\* inserted (an insert always affects one row), every key is marked
InsertMissing(p) ==
    /\ p \in procs
    /\ pc[p] = "insert"
    /\ IF idx[p] > Len(refValues[p])
       THEN /\ pc' = [pc EXCEPT ![p] = "delete"]
            /\ UNCHANGED <<junction, log, mapping, idx>>
       ELSE LET keys == refValues[p][idx[p]]
                k == sliceAsArray(keys)
                row == buildInsertRelationQuery(keys, parent[p])
            IN  /\ IF k \notin DOMAIN mapping[p]
                   THEN /\ junction' = [junction EXCEPT ![row] = @ + 1]
                        /\ log' = [log EXCEPT ![p] = Append(@, <<"insert", row>>)]
                   ELSE UNCHANGED <<junction, log>>
                /\ mapping' = [mapping EXCEPT ![p] =
                                 [j \in DOMAIN mapping[p] \cup {k} |-> IF j = k THEN TRUE ELSE mapping[p][j]]]
                /\ idx' = [idx EXCEPT ![p] = @ + 1]
                /\ pc' = pc
    /\ UNCHANGED notSync
    /\ UNCHANGED <<pkKind, condition, procs, parent, related, refValues, visited,
                   err, calls, before, order, overlap>>

\* one iteration of the loop over mapping, in the order Go's map iteration
\* happens to take: an unmarked key is deleted, and a delete that affects no
\* row ends the call with an error
DeleteObsolete(p) ==
    /\ p \in procs
    /\ pc[p] = "delete"
    /\ IF visited[p] = DOMAIN mapping[p]
       THEN /\ pc' = [pc EXCEPT ![p] = "done"]
            /\ err' = [err EXCEPT ![p] = "nil"]
            /\ UNCHANGED <<junction, log, visited>>
       ELSE \E k \in DOMAIN mapping[p] \ visited[p] :
              IF mapping[p][k]
              THEN /\ visited' = [visited EXCEPT ![p] = @ \cup {k}]
                   /\ UNCHANGED <<junction, log, pc, err>>
              ELSE LET rows == buildDeleteRelationQuery(k, parent[p])
                       affected == SumOver(junction, rows)
                   IN  /\ junction' = [r \in AllJRows |-> IF r \in rows THEN 0 ELSE junction[r]]
                       /\ log' = [log EXCEPT ![p] = Append(@, <<"delete", JRow(parent[p], k[1][2], extractConditionValue(condition).value)>>)]
                       /\ visited' = [visited EXCEPT ![p] = @ \cup {k}]
                       /\ IF affected = 0
                          THEN /\ pc' = [pc EXCEPT ![p] = "done"]
                               /\ err' = [err EXCEPT ![p] = "delete query din't affect any row"]
                          ELSE UNCHANGED <<pc, err>>
    /\ UNCHANGED notSync
    /\ UNCHANGED <<pkKind, condition, procs, parent, related, refValues, idx,
                   mapping, calls, before, order, overlap>>

\* the caller synchronizes the same record, its collection unchanged, again
SyncAgain(p) ==
    /\ p \in procs
    /\ pc[p] = "done"
    /\ err[p] = "nil"
    /\ calls[p] = 1
    /\ calls' = [calls EXCEPT ![p] = 2]
    /\ pc' = [pc EXCEPT ![p] = "start"]
    /\ err' = [err EXCEPT ![p] = ""]
    /\ log' = [log EXCEPT ![p] = <<>>]
    /\ refValues' = [refValues EXCEPT ![p] = <<>>]
    /\ mapping' = [mapping EXCEPT ![p] = EmptyMap]
    /\ visited' = [visited EXCEPT ![p] = {}]
    /\ idx' = [idx EXCEPT ![p] = 0]
    /\ UNCHANGED notSync
    /\ UNCHANGED <<pkKind, condition, junction, procs, parent, related, before,
                   order, overlap>>

\* the relation loader at rest
IdleLoad ==
    /\ rel_id = <<>>
    /\ peers = {}
    /\ RelationDepth = 0
    /\ stack = <<>>
    /\ loaded = <<>>
    /\ selects = 0

\* no record has been written
IdleWrite ==
    /\ decl = "unique"
    /\ table = {}
    /\ lastInsertRowid = 0
    /\ arg = <<>>
    /\ m = <<>>
    /\ werr = ""
    /\ stmts = <<>>
    /\ prev = {}
    /\ lastOp = ""
    /\ nOps = 0
    /\ read = {}

\* no parent is being read
IdleHm ==
    /\ keyKind = "int64"
    /\ children = <<>>
    /\ hmDepth = 0
    /\ hmParent = <<>>
    /\ hmPc = "done"
    /\ hmLoaded = {}

\* no goroutine is reading
IdleRead ==
    /\ rkind = <<>>
    /\ sharedOpts = FALSE
    /\ rpc = <<>>
    /\ srcState = 0
    /\ held = <<>>
    /\ rres = <<>>
    /\ rcalls = <<>>

InitProcs(active) ==
    /\ procs = active
    /\ pc = [p \in Procs |-> IF p \in active THEN "start" ELSE "off"]
    /\ refValues = [p \in Procs |-> <<>>]
    /\ idx = [p \in Procs |-> 0]
    /\ mapping = [p \in Procs |-> EmptyMap]
    /\ visited = [p \in Procs |-> {}]
    /\ err = [p \in Procs |-> ""]
    /\ log = [p \in Procs |-> <<>>]
    /\ calls = [p \in Procs |-> IF p \in active THEN 1 ELSE 0]
    /\ before = [p \in Procs |-> TableOf({})]
    /\ order = <<>>
    /\ overlap = FALSE

\* one goroutine: every declaration, any stored table, any collection
InitSync ==
    /\ IdleCall
    /\ pkKind \in IntKinds
    /\ condition \in Conditions
    /\ junction \in {TableOf(T) : T \in SubsetsUpTo(JRows(condition), MaxInitRows)}
    /\ InitProcs({1})
    /\ parent \in [Procs -> Parents]
    /\ parent[2] = 1
    /\ related \in [Procs -> SeqsUpTo(Targets, MaxDesired)]
    /\ related[2] = <<>>
    /\ IdleLoad
    /\ IdleWrite
    /\ IdleHm
    /\ IdleRead
    /\ IdleNested
    /\ IdleTrip

NextSync ==
    \E p \in Procs : \/ GetStoredRelations(p)
                     \/ InsertMissing(p)
                     \/ DeleteObsolete(p)
                     \/ SyncAgain(p)

SpecSync == InitSync /\ [][NextSync]_vars

\* two goroutines, each synchronizing the same parent record once; the
\* junction table has no condition column
InitRace ==
    /\ IdleCall
    /\ pkKind \in IntKinds
    /\ condition = NoCondition
    /\ junction \in {TableOf(T) : T \in SubsetsUpTo({r \in JRows(condition) : r.m = 1},
                                                     MaxInitRows - 1)}
    /\ InitProcs({1, 2})
    /\ parent = [p \in Procs |-> 1]
    /\ related \in [Procs -> SeqsUpTo(Targets, MaxDesired)]
    /\ IdleLoad
    /\ IdleWrite
    /\ IdleHm
    /\ IdleRead
    /\ IdleNested
    /\ IdleTrip

NextRace ==
    \E p \in Procs : \/ GetStoredRelations(p)
                     \/ InsertMissing(p)
                     \/ DeleteObsolete(p)

SpecRace == InitRace /\ [][NextRace]_vars

(***************************************************************************)
(* Many-to-many synchronization: what a call leaves in the junction table. *)
(***************************************************************************)
Range(f) == {f[i] : i \in DOMAIN f}

\* the identities the table T links to parent P, under the field's condition
Linked(T, P) == {r.rel : r \in {q \in buildJoinQuery(P) : T[q] > 0}}

\* the identities goroutine p inserted, and deleted, in its current call
Inserted(p) == {log[p][i][2].rel : i \in {j \in DOMAIN log[p] : log[p][j][1] = "insert"}}
Deleted(p) == {log[p][i][2].rel : i \in {j \in DOMAIN log[p] : log[p][j][1] = "delete"}}
Statements(p, op) == Cardinality({j \in DOMAIN log[p] : log[p][j][1] = op})

Succeeded(p) == pc[p] = "done" /\ err[p] = "nil"

\* the junction rows of P are exactly D, by one insert for each identity of
\* D \ S and one delete for each of S \ D, the rows of both left as they were
ExactDiff(p) ==
    LET P == parent[p]
        D == Range(related[p])
        S == Linked(before[p], P)
    IN  /\ Linked(junction, P) = D
        /\ Inserted(p) = D \ S
        /\ Statements(p, "insert") = Cardinality(D \ S)
        /\ Deleted(p) = S \ D
        /\ Statements(p, "delete") = Cardinality(S \ D)
        /\ \A r \in buildJoinQuery(P) : r.rel \in S \cap D => junction[r] = before[p][r]

\* the declarations of the test suite: an int64 primary field, and a
\* condition that is absent or compares with an integer
NumericDeclarations == pkKind = "int64" /\ condition[1] \in {"none", "int"}

\* C1: a successful synchronization of parent P with the collection D over
\* the stored links S leaves exactly D linked to P, having inserted exactly
\* D \ S and deleted exactly S \ D, for every D and S (D empty, D with
\* duplicates) -- stated for every declaration the library accepts
SyncIsExactSetDifference == \A p \in procs : Succeeded(p) => ExactDiff(p)

\* the same statement for the declarations of the test suite, which holds
SyncIsExactSetDifferenceNumeric == NumericDeclarations => SyncIsExactSetDifference

\* a call over numeric declarations that had both to insert and to delete
SyncInsertedAndDeleted ==
    \E p \in procs : /\ NumericDeclarations /\ Succeeded(p)
                     /\ Inserted(p) # {} /\ Deleted(p) # {}

\* C2: synchronizing the same record with the same collection a second
\* time executes no insert and no delete and leaves the junction table as
\* the first call left it
SecondSyncIsNoOp ==
    \A p \in procs : calls[p] = 2 /\ pc[p] # "start"
                        => log[p] = <<>> /\ junction = before[p]

\* the same statement for the declarations of the test suite, which holds
SecondSyncIsNoOpNumeric == NumericDeclarations => SecondSyncIsNoOp

\* a second call that ended, after a first one that wrote to the table
SecondSyncEnded ==
    \E p \in procs : /\ NumericDeclarations /\ calls[p] = 2 /\ Succeeded(p)
                     /\ related[p] # <<>>

\* C8, second half: of two calls for the same parent that run one after
\* the other and both succeed, the later one's collection is what the
\* parent is left linked to
SequentialSyncsLeaveLater ==
    \A p, q \in procs :
        ( /\ p # q /\ order = <<p, q>> /\ ~overlap
          /\ parent[p] = parent[q] /\ Succeeded(p) /\ Succeeded(q) )
            => Linked(junction, parent[q]) = Range(related[q])

\* the same statement for an int64 primary field, which holds
SequentialSyncsLeaveLaterInt64 == pkKind = "int64" => SequentialSyncsLeaveLater

\* C8, first half: two overlapping calls for the same parent both succeed
\* and leave it linked to neither call's collection (a lost update)
LostUpdate ==
    /\ pkKind = "int64" /\ overlap /\ parent[1] = parent[2]
    /\ Succeeded(1) /\ Succeeded(2)
    /\ Linked(junction, parent[1]) \notin {Range(related[1]), Range(related[2])}

\* C8, first half: a call fails because the row its delete was for had
\* been removed by the concurrent call
DeleteRaceFails ==
    /\ pkKind = "int64" /\ overlap /\ parent[1] = parent[2]
    /\ \E p \in procs : pc[p] = "done" /\ err[p] # "nil"

\* the junction rows of parent P that the field's condition selects
InScope(P, r) == r.m = P /\ ConditionHolds(condition, r.c)

\* C18: the synchronization of a field declared with a condition c=v reads,
\* inserts and deletes only junction rows of its parent that hold v in
\* column c; every other row of the table (the rows of a second field on the
\* same table, the rows of other parents) is left as it was, and the
\* collection read back under the condition holds only identities stored
\* with v
ConditionScopesSync ==
    \A p \in procs :
        (condition # NoCondition /\ pc[p] # "start") =>
            /\ \A k \in DOMAIN mapping[p] :
                  mapping[p][k] \/ \E r \in AllJRows :
                      InScope(parent[p], r) /\ before[p][r] > 0 /\ sliceAsArray(ScanKeys(r)) = k
            /\ \A i \in DOMAIN log[p] : InScope(parent[p], log[p][i][2])
            /\ \A r \in AllJRows : ~InScope(parent[p], r) => junction[r] = before[p][r]
            /\ Linked(junction, parent[p]) =
                  {r.rel : r \in {q \in AllJRows : InScope(parent[p], q) /\ junction[q] > 0}}

\* the same statement for a condition that compares with an integer, which
\* holds
ConditionScopesSyncNumeric == condition[1] = "int" => ConditionScopesSync

\* a call under the condition c=1 that inserted and deleted while the
\* parent had a row with c=0, which stayed
ScopedSyncBesideOtherField ==
    \E p \in procs :
        /\ condition = <<"int", 1>> /\ pkKind = "int64" /\ Succeeded(p)
        /\ Inserted(p) # {} /\ Deleted(p) # {}
        /\ \E r \in AllJRows : r.m = parent[p] /\ r.c = SqlInt(0) /\ junction[r] > 0

\* a call under the condition c='a' that wrote a row with c = 0
TextConditionWroteOtherValue ==
    \E p \in procs :
        /\ condition = <<"sq", 1>> /\ Succeeded(p)
        /\ \E i \in DOMAIN log[p] : log[p][i][1] = "insert" /\ log[p][i][2].c = SqlInt(0)

\* the links of the parent of a call that are both stored and in the
\* collection
InBothSets(p) == Linked(before[p], parent[p]) \cap Range(related[p])

\* C28: the identities of the many-to-many diff are matched by value: a
\* key of the collection and a stored key of the same integer value are
\* the same link whatever the integer type of the related record's primary
\* field, so that a link that is both stored and in the collection is
\* neither inserted again nor deleted
StoredLinkMatchedByValue ==
    \A p \in procs :
        pc[p] # "start" =>
            /\ InBothSets(p) \cap Inserted(p) = {}
            /\ InBothSets(p) \cap Deleted(p) = {}

\* the same for an int64 primary field, which holds
StoredLinkMatchedByValueInt64 ==
    NumericDeclarations => StoredLinkMatchedByValue

\* the related record's primary field is an int: a link that was stored
\* and in the collection was inserted a second time and then deleted
IntKeyInsertedAgain ==
    \E p \in procs :
        /\ pkKind = "int"
        /\ condition = NoCondition
        /\ pc[p] = "done"
        /\ \E t \in InBothSets(p) : t \in Inserted(p) /\ t \in Deleted(p)

\* an int64 key that was stored and in the collection was left alone while
\* another was inserted and a third deleted
Int64KeyLeftAlone ==
    \E p \in procs :
        /\ NumericDeclarations
        /\ Succeeded(p)
        /\ InBothSets(p) # {}
        /\ Inserted(p) # {}
        /\ InBothSets(p) \cap (Inserted(p) \cup Deleted(p)) = {}

(***************************************************************************)
(* Statements that fail.  ExecContext and QueryContext may return an error  *)
(* for any statement (the table is locked, the context is cancelled, a      *)
(* constraint of the junction table is violated); the statement then has    *)
(* written nothing.  The record was upserted before syncRelations was       *)
(* called: its row is in its table.                                         *)
(***************************************************************************)
\* the error of a statement, as the position of the call tells which it was
ExecError(at) ==
    CASE at = "start" -> "sql: select failed"
      [] at = "insert" -> "sql: insert failed"
      [] at = "delete" -> "sql: delete failed"

ExecErrors == {ExecError(at) : at \in {"start", "insert", "delete"}}

\* a statement is due at the position of goroutine p: the select, the insert
\* of a key that is not in mapping, the delete of a key that is not marked
StatementDue(p) ==
    \/ pc[p] = "start"
    \/ /\ pc[p] = "insert"
       /\ idx[p] <= Len(refValues[p])
       /\ sliceAsArray(refValues[p][idx[p]]) \notin DOMAIN mapping[p]
    \/ /\ pc[p] = "delete"
       /\ \E k \in DOMAIN mapping[p] \ visited[p] : ~mapping[p][k]

\* the same failure, were the call to go on after it
StatementFailsAndGoesOn(p) ==
    /\ p \in procs
    /\ StatementDue(p)
    /\ err[p] = ""
    /\ err' = [err EXCEPT ![p] = ExecError(pc[p])]
    /\ before' = IF pc[p] = "start" THEN [before EXCEPT ![p] = junction] ELSE before
    /\ UNCHANGED notSync
    /\ UNCHANGED <<pkKind, condition, junction, procs, pc, parent, related,
                   refValues, idx, mapping, visited, log, calls, order, overlap>>

\* the statement that is due fails: syncManyToManyRelation returns the
\* error, wrapped, and insert returns it to the caller
StatementFails(p) ==
    /\ p \in procs
    /\ StatementDue(p)
    /\ err[p] = ""
    /\ err' = [err EXCEPT ![p] = ExecError(pc[p])]
    /\ pc' = [pc EXCEPT ![p] = "done"]
    /\ before' = IF pc[p] = "start" THEN [before EXCEPT ![p] = junction] ELSE before
    /\ UNCHANGED notSync
    /\ UNCHANGED <<pkKind, condition, junction, procs, parent, related,
                   refValues, idx, mapping, visited, log, calls, order, overlap>>

\* the row of the record in its table, as its upsert statement wrote it
OwnRow(P) == [c \in {"rowid", "id", "field"} |-> IF c = "field" THEN 1 ELSE P]

\* one call of insert for a record of the declaration m2m whose own
\* statement has been executed; syncRelations is about to run
InitFail ==
    /\ IdleCall
    /\ pkKind \in IntKinds
    /\ condition \in Conditions
    /\ junction \in {TableOf(T) : T \in SubsetsUpTo(JRows(condition), MaxInitRows)}
    /\ InitProcs({1})
    /\ parent = [p \in Procs |-> 1]
    /\ related \in [Procs -> SeqsUpTo(Targets, MaxDesired)]
    /\ related[2] = <<>>
    /\ IdleLoad
    /\ IdleHm
    /\ IdleRead
    /\ IdleNested
    /\ IdleTrip
    /\ decl = "m2m"
    /\ table = {OwnRow(parent[1])}
    /\ lastInsertRowid = parent[1]
    /\ arg = <<>>
    /\ m = <<>>
    /\ werr = ""
    /\ stmts = <<"upsert">>
    /\ prev = {}
    /\ lastOp = "upsert"
    /\ nOps = 1
    /\ read = {}

NextFail ==
    \E p \in Procs : \/ GetStoredRelations(p)
                     \/ InsertMissing(p)
                     \/ DeleteObsolete(p)
                     \/ StatementFails(p)

SpecFail == InitFail /\ [][NextFail]_vars

\* the table after the statements of a log were executed on it
RECURSIVE ApplyLog(_, _, _)
ApplyLog(T, lg, P) ==
    IF lg = <<>> THEN T
    ELSE LET st == Head(lg)
             gone == buildDeleteRelationQuery(<< <<"int64", st[2].rel>> >>, P)
             next == IF st[1] = "insert"
                     THEN [T EXCEPT ![st[2]] = @ + 1]
                     ELSE [r \in AllJRows |-> IF r \in gone THEN 0 ELSE T[r]]
         IN  ApplyLog(next, Tail(lg), P)

\* the call of goroutine p returned an error
Failed(p) == err[p] \notin {"", "nil"}

\* C21: the synchronizer does not roll back: when a statement of a
\* many-to-many reconciliation fails, by an error or by affecting no row,
\* the call returns the error at once and executes no later statement; the
\* row of the record's own upsert and the effects of the earlier junction
\* statements stay; every insert comes before every delete, so that after a
\* failing insert no link has been deleted
FailureLeavesEarlierStatements ==
    \A p \in procs :
        /\ \A i, j \in DOMAIN log[p] :
              (i < j /\ log[p][i][1] = "delete") => log[p][j][1] = "delete"
        /\ Failed(p) =>
              /\ pc[p] = "done"
              /\ ~StatementDue(p)
              /\ junction = ApplyLog(before[p], log[p], parent[p])
              /\ table = {OwnRow(parent[p])}
              /\ err[p] = ExecError("insert") =>
                    /\ Statements(p, "delete") = 0
                    /\ \A r \in AllJRows : junction[r] >= before[p][r]

\* the second insert of a call failed: the first one's row is stored, as are
\* the rows that were stored before
SecondInsertFailed ==
    \E p \in procs :
        /\ err[p] = ExecError("insert")
        /\ Statements(p, "insert") = 1
        /\ \E r \in AllJRows : junction[r] > before[p][r]
        /\ Linked(before[p], parent[p]) # {}
        /\ Linked(before[p], parent[p]) \subseteq Linked(junction, parent[p])

\* a delete failed after an insert and a delete had been executed
SecondDeleteFailed ==
    \E p \in procs :
        /\ err[p] = ExecError("delete")
        /\ Statements(p, "insert") = 1
        /\ Statements(p, "delete") = 1
        /\ junction # before[p]

(***************************************************************************)
(* The relation loader.  The record type that is read is                   *)
(*                                                                         *)
(*   type node struct {                                                    *)
(*       ID       int64   `ormlite:"col=rowid,primary,ref=rel_id"`         *)
(*       Related  *node   `ormlite:"has_one,col=rel_id"`                   *)
(*       Children []*node `ormlite:"has_many"`                             *)
(*       Peers    []*node `ormlite:"many_to_many,table=peers,field=m_id"`  *)
(*   }                                                                     *)
(*                                                                         *)
(* so that every relation leads back to the type itself.  A call of        *)
(* QueryStructContext or QuerySliceCountContext is one step: its select,   *)
(* the scan of the rows, and the nested calls its relation loaders make,   *)
(* which are put on the stack in place of the call.                        *)
(***************************************************************************)
NodeIds == 1..MaxNode

\* the loader's nested depth when it skipped a level
NestedDepthSkips(d) == IF d > 1 THEN d - 2 ELSE 0

\* the loader's nested depth when the caller's depth is passed on as it is
NestedDepthKept(d) == d

\* RelationDepth of the Options a loader builds for its nested call
NestedDepth(d) == d - 1

\* the values the column rel_id may hold: NULL, a rowid, or 0 (no such row)
RelIdColumn == {SqlNull} \cup {SqlInt(n) : n \in 0..MaxNode}

\* the synchronizer at rest
IdleSync ==
    /\ pkKind = "int64"
    /\ condition = NoCondition
    /\ junction = TableOf({})
    /\ InitProcs({})
    /\ parent = [p \in Procs |-> 1]
    /\ related = [p \in Procs |-> <<>>]

\* Options.Where of a call: nothing, column = value, or column in (values)
NoWhere == [op |-> "none"]
WhereEq(col, v) == [op |-> "eq", col |-> col, val |-> v]
WhereIn(col, vs) == [op |-> "in", col |-> col, vals |-> vs]

\* queryWithOptions over the table nodes: the rowids the select returns
queryWithOptions(where) ==
    CASE where.op = "none" -> NodeIds
      [] where.op = "eq" /\ where.col = "rowid" ->
            {i \in NodeIds : SqlInt(i) = where.val}
      [] where.op = "eq" /\ where.col = "rel_id" ->
            {i \in NodeIds : rel_id[i] = where.val}
      [] where.op = "in" -> {i \in NodeIds : i \in where.vals}

\* a scanned row: the primary field and RefPkValue of the has-one column
ScanNode(i) == [id |-> i, fk |-> rel_id[i]]

\* the record when no row was scanned: a zero primary field, and RefPkValue
\* as extractRelationInfo made it, the zero value of the related primary field
Unscanned == [id |-> 0, fk |-> SqlInt(0)]


Call(kind, where, d, from, path, rel) ==
    [call |-> kind, where |-> where, depth |-> d, from |-> from,
     path |-> path, rel |-> rel]

\* loadHasOneRelation: nothing for a NULL column, else QueryStructContext
\* of the related type where its primary column equals RefPkValue
loadHasOneRelation(obj, d, path) ==
    IF obj.fk = SqlNull THEN <<>>
    ELSE <<Call("struct", WhereEq("rowid", obj.fk), NestedDepth(d), d, path, "one")>>

\* loadHasManyRelation: QuerySliceContext of the related type where its
\* field of the parent's type (rel_id) equals the parent's primary field
loadHasManyRelation(obj, d, path) ==
    <<Call("slice", WhereEq("rel_id", SqlInt(obj.id)), NestedDepth(d), d, path, "many")>>

\* loadManyToManyRelation: select rel_id from peers where m_id = ?, then,
\* unless no row came back, QuerySliceContext where rowid in (the keys)
loadManyToManyRelation(obj, d, path) ==
    LET keys == {e[2] : e \in {x \in peers : x[1] = obj.id}}
    IN  IF keys = {} THEN <<>>
        ELSE <<Call("slice", WhereIn("rowid", keys), NestedDepth(d), d, path, "m2m")>>

\* the relations of a record when the depth is not looked at
loadStructRelationsAtAnyDepth(obj, d, path) ==
    loadHasOneRelation(obj, d, path) \o loadHasManyRelation(obj, d, path)
        \o loadManyToManyRelation(obj, d, path)

\* DefaultOptions: RelationDepth is defaultRelationDepth
defaultRelationDepth == 1

\* the selects on the junction table that loadManyToManyRelation executes
\* for n records read with depth d: one for each record whose relations are
\* loaded
junctionSelects(n, d) == IF d # 0 THEN n ELSE 0

\* the select of a call is a relation query when a relation loader made the
\* call
relationSelect(f) == IF f.path # <<>> THEN 1 ELSE 0

\* loadStructRelations: every relation of the record, unless the depth is 0
\* (the order of the map range has no effect on what is loaded)
loadStructRelations(obj, d, path) ==
    IF d # 0
    THEN loadHasOneRelation(obj, d, path) \o loadHasManyRelation(obj, d, path)
            \o loadManyToManyRelation(obj, d, path)
    ELSE <<>>

\* loadRelationsForSlice: every relation of every element, unless the depth
\* is 0
RECURSIVE loadRelationsForSlice(_, _, _, _)
loadRelationsForSlice(rows, d, path, rel) ==
    IF d = 0 \/ rows = {} THEN <<>>
    ELSE LET i == CHOOSE x \in rows : \A y \in rows : x <= y
             obj == ScanNode(i)
             at == Append(path, <<rel, i>>)
         IN  loadHasOneRelation(obj, d, at) \o loadHasManyRelation(obj, d, at)
                \o loadManyToManyRelation(obj, d, at)
                \o loadRelationsForSlice(rows \ {i}, d, path, rel)

\* QueryStructContext: every row of the select is scanned into the same
\* record, so the row that comes last stays; then the relations
QueryStructContext ==
    /\ stack # <<>>
    /\ Head(stack).call = "struct"
    /\ LET f == Head(stack)
           rows == queryWithOptions(f.where)
           at == Append(f.path, <<f.rel, 0>>)
       IN  \E obj \in (IF rows = {} THEN {Unscanned} ELSE {ScanNode(i) : i \in rows}) :
              /\ loaded' = (at :> obj.id) @@ loaded
              /\ stack' = loadStructRelations(obj, f.depth, at) \o Tail(stack)
              /\ selects' = selects + relationSelect(f) + junctionSelects(1, f.depth)
    /\ UNCHANGED <<rel_id, peers, RelationDepth>>
    /\ UNCHANGED notLoad

\* QuerySliceCountContext: one element for each row, then the relations of
\* every element
QuerySliceCountContext ==
    /\ stack # <<>>
    /\ Head(stack).call = "slice"
    /\ LET f == Head(stack)
           rows == queryWithOptions(f.where)
       IN  /\ loaded' = [p \in {Append(f.path, <<f.rel, i>>) : i \in rows}
                            |-> p[Len(p)][2]] @@ loaded
           /\ stack' = loadRelationsForSlice(rows, f.depth, f.path, f.rel) \o Tail(stack)
           /\ selects' = selects + relationSelect(f) + junctionSelects(Cardinality(rows), f.depth)
    /\ UNCHANGED <<rel_id, peers, RelationDepth>>
    /\ UNCHANGED notLoad

\* the caller: QueryStruct or QuerySlice, with or without a condition on
\* the rowid, with a relation depth of its choice
InitLoad ==
    /\ IdleCall
    /\ IdleSync
    /\ IdleWrite
    /\ IdleHm
    /\ IdleRead
    /\ IdleNested
    /\ IdleTrip
    /\ rel_id \in [NodeIds -> RelIdColumn]
    /\ peers \in SubsetsUpTo(NodeIds \X NodeIds, MaxPeers)
    /\ RelationDepth \in 0..MaxDepth
    /\ \E kind \in {"struct", "slice"} :
       \E where \in {NoWhere} \cup {WhereEq("rowid", SqlInt(i)) : i \in NodeIds} :
          stack = <<Call(kind, where, RelationDepth, RelationDepth, <<>>, "top")>>
    /\ loaded = <<>>
    /\ selects = 0

NextLoad == QueryStructContext \/ QuerySliceCountContext

SpecLoad == InitLoad /\ [][NextLoad]_vars

\* the calls run to completion: nothing but the database stands in their way
SpecLoadFair == SpecLoad /\ WF_vars(NextLoad)

(***************************************************************************)
(* What the relation loader returns.                                       *)
(***************************************************************************)
LoadDone == stack = <<>> /\ loaded # <<>>

\* the objects the caller's record or slice holds
Roots == {p \in DOMAIN loaded : Len(p) = 1}

\* the path of the has-one reference k levels under the object at root
OnePath(root, k) == root \o [j \in 1..k |-> <<"one", 0>>]

\* the row that k has-one references lead to from row i, 0 when a
\* reference on the way is NULL or leads to no row
RECURSIVE Follow(_, _)
Follow(i, k) ==
    IF k = 0 THEN i
    ELSE LET j == Follow(i, k - 1)
         IN  IF j \in NodeIds /\ rel_id[j] \in {SqlInt(n) : n \in NodeIds}
             THEN rel_id[j][2] ELSE 0

\* row i points to itself or lies on a longer cycle of has-one references
OnCycle(i) == i \in NodeIds /\ \E k \in 1..MaxNode : Follow(i, k) = i

\* C3: when the stored row lies on a cycle of has-one references, a read
\* with relation depth N returns N nested references that are not nil, each
\* the row the cycle leads to, and a nil reference at level N + 1
DepthGivesLevels ==
    LoadDone =>
        \A r \in Roots :
            OnCycle(loaded[r]) =>
                /\ \A k \in 1..RelationDepth :
                      /\ OnePath(r, k) \in DOMAIN loaded
                      /\ loaded[OnePath(r, k)] = Follow(loaded[r], k)
                /\ OnePath(r, RelationDepth + 1) \notin DOMAIN loaded

\* a read with the largest depth of a row on a cycle of two rows, by
\* QueryStruct or by QuerySlice according to kind
CycleReadTo(kind) ==
    /\ LoadDone
    /\ RelationDepth = MaxDepth
    /\ \E r \in Roots :
          /\ r[1][2] = (IF kind = "struct" THEN 0 ELSE loaded[r])
          /\ OnCycle(loaded[r])
          /\ Follow(loaded[r], 1) # loaded[r]
          /\ OnePath(r, MaxDepth) \in DOMAIN loaded

CycleReadToDepth == CycleReadTo("struct")

CycleSliceReadToDepth == CycleReadTo("slice")

\* C4: every read ends, and every nested call is made with a depth that is
\* smaller than the depth of the call that makes it and not below 0
NestedDepthsDecrease ==
    \A n \in DOMAIN stack :
        stack[n].path # <<>> => stack[n].depth < stack[n].from /\ stack[n].depth >= 0

LoadTerminates == <>(stack = <<>>) /\ []NestedDepthsDecrease

\* a read that ended after nested calls through every kind of relation,
\* over rows that reference each other in a cycle
CyclicLoadEnded ==
    /\ LoadDone
    /\ RelationDepth = MaxDepth
    /\ \E i \in NodeIds : OnCycle(i) /\ Follow(i, 1) # i
    /\ \E p \in DOMAIN loaded :
          /\ Len(p) = MaxDepth + 1
          /\ {p[n][1] : n \in 2..Len(p)} = {"one", "many", "m2m"}

\* what stands for the column of a record that no row was scanned into
NoRow == <<"no row", 0>>

\* the has-one column of the row scanned into the object at path p, and
\* NoRow when the select returned none
StoredForeignKey(p) == IF loaded[p] \in NodeIds THEN rel_id[loaded[p]] ELSE NoRow

\* the relations of the object at path p were to be loaded
RelationsWanted(p) == Len(p) <= RelationDepth

\* C19: a read with relation depth 0 executes no relation query and leaves
\* every has-one, has-many and many-to-many field of every record it loads
\* empty; a read with the depth of DefaultOptions, which is 1, loads the
\* relations of the records it returns and none of theirs
DepthZeroLoadsNoRelation ==
    /\ RelationDepth = 0 =>
            selects = 0 /\ \A p \in DOMAIN loaded : Len(p) = 1
    /\ (RelationDepth = defaultRelationDepth /\ LoadDone) =>
            /\ \A p \in DOMAIN loaded : Len(p) <= 2
            /\ \A r \in Roots : loaded[r] \in NodeIds =>
                  /\ Follow(loaded[r], 1) \in NodeIds =>
                        loaded[OnePath(r, 1)] = Follow(loaded[r], 1)
                  /\ \A i \in NodeIds :
                        Append(r, <<"many", i>>) \in DOMAIN loaded
                            <=> rel_id[i] = SqlInt(loaded[r])
                  /\ \A i \in NodeIds :
                        Append(r, <<"m2m", i>>) \in DOMAIN loaded
                            <=> <<loaded[r], i>> \in peers

\* a read with depth 0 of a row that has a relation of every kind
DepthZeroReadOfRelatedRow ==
    /\ LoadDone /\ RelationDepth = 0
    /\ \E r \in Roots :
          /\ loaded[r] \in NodeIds
          /\ Follow(loaded[r], 1) \in NodeIds
          /\ \E i \in NodeIds : rel_id[i] = SqlInt(loaded[r])
          /\ \E i \in NodeIds : <<loaded[r], i>> \in peers

\* a read with the depth of DefaultOptions that loaded a relation of every
\* kind
DefaultDepthReadOneLevel ==
    /\ LoadDone /\ RelationDepth = defaultRelationDepth
    /\ \E r \in Roots : {p[2][1] : p \in {q \in DOMAIN loaded : Len(q) = 2 /\ q[1] = r[1]}}
                            = {"one", "many", "m2m"}

\* C20: the has-one field of a loaded record stays nil, and no query for its
\* target is made, when the stored column is NULL or zero or when the select
\* of the record returned no row; otherwise the field is the row whose
\* primary key is the stored value
HasOneFollowsStoredKey ==
    LoadDone =>
        \A p \in DOMAIN loaded :
            RelationsWanted(p) =>
                IF StoredForeignKey(p) \in {NoRow, SqlNull, SqlInt(0)}
                THEN OnePath(p, 1) \notin DOMAIN loaded
                ELSE /\ OnePath(p, 1) \in DOMAIN loaded
                     /\ SqlInt(loaded[OnePath(p, 1)]) = StoredForeignKey(p)

\* the same statement for the records whose column is NULL or the key of a
\* row, which holds
HasOneFollowsStoredKeyOfRow ==
    LoadDone =>
        \A p \in DOMAIN loaded :
            (RelationsWanted(p) /\ StoredForeignKey(p) \notin {NoRow, SqlInt(0)}) =>
                IF StoredForeignKey(p) = SqlNull
                THEN OnePath(p, 1) \notin DOMAIN loaded
                ELSE /\ OnePath(p, 1) \in DOMAIN loaded
                     /\ SqlInt(loaded[OnePath(p, 1)]) = StoredForeignKey(p)

\* a slice was read of which one record has a NULL column and a nil field
\* and another has the key of a row and that row in its field
SliceReadNullAndStoredKey ==
    /\ LoadDone /\ RelationDepth > 0
    /\ \E r1, r2 \in Roots :
          /\ StoredForeignKey(r1) = SqlNull /\ OnePath(r1, 1) \notin DOMAIN loaded
          /\ StoredForeignKey(r2) \in {SqlInt(n) : n \in NodeIds}
          /\ SqlInt(loaded[OnePath(r2, 1)]) = StoredForeignKey(r2)

\* a record whose column holds 0 got a record that no row was scanned into
ZeroKeyLoadedEmptyRecord ==
    /\ LoadDone
    /\ \E p \in DOMAIN loaded :
          /\ StoredForeignKey(p) = SqlInt(0)
          /\ OnePath(p, 1) \in DOMAIN loaded
          /\ loaded[OnePath(p, 1)] = 0

(***************************************************************************)
(* The write path of one record: Upsert and Delete, and the full-table     *)
(* QuerySlice that reads the table back.  The record types are             *)
(*                                                                         *)
(*   unique       ID int64 `primary`, Field string `unique`                *)
(*   uniqueOther  the same and a regular field Other                       *)
(*   compound     FirstID, SecondID int64 `primary`, Field string          *)
(*   m2m          unique and Peers []*peer `many_to_many,table=peers`,     *)
(*                ID having ref=m_id and the primary field of peer         *)
(*                having ref=rel_id                                        *)
(*   m2mNoTable   m2m without the table setting                            *)
(*   m2mNoRef     m2m, the primary field of peer without the ref setting   *)
(*   noPk         Field string, no primary field                           *)
(*                                                                         *)
(* A value 0 is the zero value of its Go type.  An operation is one step.  *)
(***************************************************************************)
Decls == {"unique", "uniqueOther", "compound", "m2m", "m2mNoTable", "m2mNoRef", "noPk"}

\* getFieldInfo: the column, the kind of the field, the reference settings
\* and the value of a field
Field(col, pk, unique, val) ==
    [col |-> col, pk |-> pk, unique |-> unique, ref |-> "", rtable |-> "",
     rcolumn |-> "", val |-> val]

ManyToMany(col, rtable, rcolumn) ==
    [col |-> col, pk |-> FALSE, unique |-> FALSE, ref |-> "many_to_many",
     rtable |-> rtable, rcolumn |-> rcolumn, val |-> 0]

\* getModelInfo: the fields of the record in the order of their declaration
getModelInfo(d, v) ==
    LET base == <<Field("id", TRUE, FALSE, v[1]), Field("field", FALSE, TRUE, v[2])>>
    IN  CASE d = "unique" -> base
          [] d = "uniqueOther" -> Append(base, Field("other", FALSE, FALSE, v[3]))
          [] d = "compound" ->
                <<Field("first_id", TRUE, FALSE, v[1]), Field("second_id", TRUE, FALSE, v[2]),
                  Field("field", FALSE, FALSE, v[3])>>
          [] d = "m2m" -> Append(base, ManyToMany("peers", "peers", "rel_id"))
          [] d = "m2mNoTable" -> Append(base, ManyToMany("peers", "", "rel_id"))
          [] d = "m2mNoRef" -> Append(base, ManyToMany("peers", "peers", ""))
          [] d = "noPk" -> <<Field("field", FALSE, FALSE, v[2])>>

\* the table the fixture creates for a record type: its columns, the column
\* that is an alias of the rowid, its unique keys, its not null columns and
\* its primary key
Schema(d) ==
    CASE d = "compound" ->
            [columns |-> {"first_id", "second_id", "field"}, alias |-> "",
             unique |-> {{"first_id", "second_id"}}, notNull |-> {"first_id", "second_id"},
             primary |-> {"first_id", "second_id"}]
      [] d = "uniqueOther" ->
            [columns |-> {"id", "field", "other"}, alias |-> "id",
             unique |-> {{"id"}, {"field"}}, notNull |-> {}, primary |-> {"rowid"}]
      [] d = "noPk" ->
            [columns |-> {"field"}, alias |-> "",
             unique |-> {}, notNull |-> {}, primary |-> {"rowid"}]
      [] OTHER ->
            [columns |-> {"id", "field"}, alias |-> "id",
             unique |-> {{"id"}, {"field"}}, notNull |-> {}, primary |-> {"rowid"}]

isPkField(f) == f.pk
isUniqueField(f) == f.unique
isReferenceField(f) == f.ref # ""
isManyToMany(f) == f.ref = "many_to_many"
isZeroField(f) == f.val = 0

\* getModelColumns: the columns and arguments of the statement and the
\* columns of its conflict target; a zero primary field is left out
RECURSIVE getModelColumns(_)
getModelColumns(fields) ==
    IF fields = <<>> THEN [columns |-> <<>>, indexes |-> <<>>, args |-> <<>>]
    ELSE LET f == Head(fields)
             rest == getModelColumns(Tail(fields))
         IN  IF isReferenceField(f) \/ (isPkField(f) /\ isZeroField(f)) THEN rest
             ELSE [columns |-> <<f.col>> \o rest.columns,
                   indexes |-> (IF isPkField(f) THEN <<f.col>> ELSE <<>>)
                                \o (IF isUniqueField(f) THEN <<f.col>> ELSE <<>>)
                                \o rest.indexes,
                   args |-> <<f.val>> \o rest.args]

\* pkIsNull: some primary field holds its zero value
pkIsNull(info) == \E n \in DOMAIN info : isPkField(info[n]) /\ isZeroField(info[n])

\* setModelPk: the id is written to every primary field that is zero
setModelPk(info, id) ==
    [n \in DOMAIN info |->
        IF isPkField(info[n]) /\ ~isReferenceField(info[n]) /\ isZeroField(info[n])
        THEN [info[n] EXCEPT !.val = id] ELSE info[n]]

\* the inserter of Upsert (updateConflict) and of Insert
inserter(update) == [depth |-> 0, updateConflict |-> update]

\* inserter.buildUpsertQuery: insert into t(columns) values(args), and with
\* updateConflict and a key on conflict(indexes) do update set columns = args
buildUpsertQuery(ins, info) ==
    LET q == getModelColumns(info)
    IN  [columns |-> q.columns,
         indexes |-> IF ins.updateConflict THEN q.indexes ELSE <<>>,
         args |-> q.args]

\* buildSearchQuery: select id from t where c1 = ?, c2 = ? -- the
\* comparisons are joined by a comma
buildSearchQuery(info) ==
    LET q == getModelColumns(info)
    IN  [select |-> "id", where |-> q.columns, joinedBy |-> ",", args |-> q.args]

MaxRowid(T) ==
    IF T = {} THEN 0
    ELSE CHOOSE n \in {r.rowid : r \in T} : \A r \in T : r.rowid <= n

ColumnValue(cols, args, c) == args[CHOOSE n \in DOMAIN cols : cols[n] = c]

SqlResult(T, last, e) == [table |-> T, last |-> last, err |-> e]

\* the sqlite3.Error of a constraint the statement violates: the extended
\* code is ErrConstraintUnique for a unique column and
\* ErrConstraintPrimaryKey for the primary key of the table
ErrConstraintUnique == "sql: UNIQUE constraint failed"
ErrConstraintPrimaryKey == "sql: UNIQUE constraint failed (primary key)"

\* ErrNoRowsAffected
ErrNoRowsAffected == "no rows affected"

\* IsUniqueViolation: a sqlite3.Error with the extended code ErrConstraintUnique
IsUniqueViolation(e) == e = ErrConstraintUnique

\* IsNotFound
IsNotFound(e) == e = ErrNoRowsAffected

\* the rows of others that agree with row on every column of key
RowsWithKey(key, row, others) == {r \in others : \A c \in key : r[c] = row[c]}

\* the constraint error of a row that collides with one of others: SQLite
\* checks the primary key before the unique columns
ConstraintError(sch, row, others) ==
    IF RowsWithKey(sch.primary, row, others) # {}
    THEN ErrConstraintPrimaryKey ELSE ErrConstraintUnique

\* SQLite executing the statement of buildUpsertQuery: the conflict target
\* must be a unique key of the table; a row that agrees on the target is
\* updated and sqlite3_last_insert_rowid stays what it was, otherwise the
\* row is inserted
ExecUpsert(T, last, q) ==
    LET sch == Schema(decl)
        given == Range(q.columns)
        val(c) == ColumnValue(q.columns, q.args, c)
        newRowid == IF sch.alias \in given THEN val(sch.alias) ELSE MaxRowid(T) + 1
        cand == [c \in sch.columns \cup {"rowid"} |->
                    IF c = "rowid" \/ c = sch.alias THEN newRowid
                    ELSE IF c \in given THEN val(c) ELSE 0]
        keys == sch.unique \cup {{"rowid"}}
        target == Range(q.indexes)
        hit == IF q.indexes = <<>> THEN {} ELSE RowsWithKey(target, cand, T)
    IN  IF q.indexes # <<>> /\ target \notin sch.unique
        THEN SqlResult(T, last, "sql: ON CONFLICT clause does not match any PRIMARY KEY or UNIQUE constraint")
        ELSE IF sch.notNull \ given # {}
        THEN SqlResult(T, last, "sql: NOT NULL constraint failed")
        ELSE IF hit # {}
        THEN LET old == CHOOSE r \in hit : TRUE
                 new == [c \in DOMAIN old |-> IF c \in given THEN val(c) ELSE old[c]]
             IN  IF \E key \in keys : RowsWithKey(key, new, T \ {old}) # {}
                 THEN SqlResult(T, last, ConstraintError(sch, new, T \ {old}))
                 ELSE SqlResult((T \ {old}) \cup {new}, last, "nil")
        ELSE IF \E key \in keys : RowsWithKey(key, cand, T) # {}
        THEN SqlResult(T, last, ConstraintError(sch, cand, T))
        ELSE SqlResult(T \cup {cand}, newRowid, "nil")

\* SQLite executing the statement of buildSearchQuery: the id of the row
\* that comes last, 0 when there is none
ExecSearch(T, q) ==
    IF Len(q.where) # 1 THEN [id |-> 0, err |-> "sql: near \",\": syntax error"]
    ELSE IF q.select \notin Schema(decl).columns
    THEN [id |-> 0, err |-> "sql: no such column: id"]
    ELSE LET rows == {r \in T : r[q.where[1]] = q.args[1]}
         IN  [id |-> IF rows = {} THEN 0
                     ELSE CHOOSE n \in {r.id : r \in rows} : \A r \in rows : r.id <= n,
              err |-> "nil"]

\* inserter.syncRelations of a record whose collection is empty and has no
\* stored link: the select of getStoredRelations for each many-to-many
\* field, which names the junction table and the reference columns
syncRelations(info) ==
    LET bad == {n \in DOMAIN info : isManyToMany(info[n])
                    /\ (info[n].rtable = "" \/ info[n].rcolumn = "")}
        any == {n \in DOMAIN info : isManyToMany(info[n])}
    IN  [stmts |-> IF any = {} THEN <<>> ELSE <<"select">>,
         err |-> IF bad = {} THEN "nil" ELSE "sql: syntax error"]

WriteResult(T, last, info, e, st) ==
    [table |-> T, last |-> last, m |-> info, err |-> e, stmts |-> st]

\* inserter.insert: the upsert statement, LastInsertId, the search for the
\* id when LastInsertId is 0 and a primary field is zero, setModelPk, and
\* the relations
insert(ins, info) ==
    LET q == buildUpsertQuery(ins, info)
    IN  IF Len(q.args) = 0
        THEN LET rel == syncRelations(info)
             IN  WriteResult(table, lastInsertRowid, info, rel.err, rel.stmts)
        ELSE LET r == ExecUpsert(table, lastInsertRowid, q)
             IN  IF r.err # "nil"
                 THEN WriteResult(r.table, r.last, info, r.err, <<"upsert">>)
                 ELSE LET search == r.last = 0 /\ pkIsNull(info)
                          found == IF search THEN ExecSearch(r.table, buildSearchQuery(info))
                                   ELSE [id |-> r.last, err |-> "nil"]
                          st == IF search THEN <<"upsert", "search">> ELSE <<"upsert">>
                      IN  IF found.err # "nil"
                          THEN WriteResult(r.table, r.last, info, found.err, st)
                          ELSE LET rel == syncRelations(info)
                               IN  WriteResult(r.table, r.last, setModelPk(info, found.id),
                                               rel.err, st \o rel.stmts)

\* the values a caller gives the fields of a record
FieldValues == (0..MaxVal) \X (0..MaxVal) \X (1..MaxVal)

Upsert(v) ==
    /\ nOps < MaxOps
    /\ LET info == getModelInfo(decl, v)
           r == insert(inserter(TRUE), info)
       IN  /\ arg' = info
           /\ m' = r.m
           /\ table' = r.table
           /\ lastInsertRowid' = r.last
           /\ werr' = r.err
           /\ stmts' = r.stmts
    /\ prev' = table
    /\ lastOp' = "upsert"
    /\ nOps' = nOps + 1
    /\ UNCHANGED <<decl, read>>
    /\ UNCHANGED notWrite

\* Insert: inserter.insert without updateConflict
Insert(v) ==
    /\ nOps < MaxOps
    /\ LET info == getModelInfo(decl, v)
           r == insert(inserter(FALSE), info)
       IN  /\ arg' = info
           /\ m' = r.m
           /\ table' = r.table
           /\ lastInsertRowid' = r.last
           /\ werr' = r.err
           /\ stmts' = r.stmts
    /\ prev' = table
    /\ lastOp' = "insert"
    /\ nOps' = nOps + 1
    /\ UNCHANGED <<decl, read>>
    /\ UNCHANGED notWrite

\* buildUpdateQuery: update t set c = ? for every column that is no primary
\* column, where every primary column equals its field
RECURSIVE buildUpdateQuery(_)
buildUpdateQuery(fields) ==
    IF fields = <<>> THEN [columns |-> <<>>, args |-> <<>>, where |-> <<>>, ids |-> <<>>]
    ELSE LET f == Head(fields)
             rest == buildUpdateQuery(Tail(fields))
         IN  IF isReferenceField(f) THEN rest
             ELSE IF isPkField(f)
             THEN [rest EXCEPT !.where = <<f.col>> \o @, !.ids = <<f.val>> \o @]
             ELSE [rest EXCEPT !.columns = <<f.col>> \o @, !.args = <<f.val>> \o @]

\* SQLite executing the statement of buildUpdateQuery: the rows it matched
\* are the rows it affected
ExecUpdate(T, q) ==
    LET sch == Schema(decl)
        hit == {r \in T : \A n \in DOMAIN q.where : r[q.where[n]] = q.ids[n]}
        set(r) == [c \in DOMAIN r |->
                     IF c \in Range(q.columns) THEN ColumnValue(q.columns, q.args, c)
                     ELSE r[c]]
        new == {set(r) : r \in hit}
        keys == sch.unique \cup {{"rowid"}}
    IN  IF q.where = <<>> \/ q.columns = <<>>
        THEN [table |-> T, affected |-> 0, err |-> "sql: incomplete input"]
        ELSE IF \E r \in new : \E key \in keys : RowsWithKey(key, r, (T \ hit) \cup (new \ {r})) # {}
        THEN [table |-> T, affected |-> 0, err |-> ErrConstraintUnique]
        ELSE [table |-> (T \ hit) \cup new, affected |-> Cardinality(hit), err |-> "nil"]

\* inserter.update: the update statement, ErrNoRowsAffected when it affected
\* no row, and the relations when deep
update(info, deep) ==
    LET r == ExecUpdate(table, buildUpdateQuery(info))
    IN  IF r.err # "nil"
        THEN WriteResult(r.table, lastInsertRowid, info, r.err, <<"update">>)
        ELSE IF r.affected = 0
        THEN WriteResult(r.table, lastInsertRowid, info, ErrNoRowsAffected, <<"update">>)
        ELSE IF deep
        THEN LET rel == syncRelations(info)
             IN  WriteResult(r.table, lastInsertRowid, info, rel.err, <<"update">> \o rel.stmts)
        ELSE WriteResult(r.table, lastInsertRowid, info, "nil", <<"update">>)

\* Update and UpdateDeep
Update(v, deep) ==
    /\ nOps < MaxOps
    /\ LET info == getModelInfo(decl, v)
           r == update(info, deep)
       IN  /\ arg' = info
           /\ m' = r.m
           /\ table' = r.table
           /\ werr' = r.err
           /\ stmts' = r.stmts
    /\ prev' = table
    /\ lastOp' = "update"
    /\ nOps' = nOps + 1
    /\ UNCHANGED <<decl, lastInsertRowid, read>>
    /\ UNCHANGED notWrite

\* the where clause of Delete when the comparisons are joined by or
DeleteWhereAny(info, r) ==
    \E n \in DOMAIN info : isPkField(info[n]) /\ r[info[n].col] = info[n].val

\* the where clause of Delete: the comparisons of the primary columns,
\* joined by and
DeleteWhere(info, r) ==
    \A n \in DOMAIN info : isPkField(info[n]) => r[info[n].col] = info[n].val

\* the check of Delete when it looks at the first primary field only
DeleteCheckFirstKey(info) ==
    LET pkFields == {n \in DOMAIN info : isPkField(info[n])}
    IN  IF pkFields = {} THEN "delete failed: model does not have primary key"
        ELSE IF isZeroField(info[CHOOSE n \in pkFields : \A k \in pkFields : n <= k])
        THEN "delete failed: model's primary key has zero value"
        ELSE "nil"

\* the check Delete makes before it builds its statement: the type has a
\* primary field and no primary field of the record holds its zero value
DeleteCheck(info) ==
    LET pkFields == {n \in DOMAIN info : isPkField(info[n])}
    IN  IF pkFields = {} THEN "delete failed: model does not have primary key"
        ELSE IF \E n \in pkFields : isZeroField(info[n])
        THEN "delete failed: model's primary key has zero value"
        ELSE "nil"

\* Delete: the error of the check, else delete from t where every primary
\* column equals its field; the error of the statement is what it returns
Delete(v) ==
    /\ nOps < MaxOps
    /\ LET info == getModelInfo(decl, v)
       IN  /\ arg' = info
           /\ m' = info
           /\ IF DeleteCheck(info) # "nil"
              THEN /\ werr' = DeleteCheck(info)
                   /\ stmts' = <<>>
                   /\ table' = table
              ELSE /\ werr' = "nil"
                   /\ stmts' = <<"delete">>
                   /\ table' = {r \in table : ~DeleteWhere(info, r)}
    /\ prev' = table
    /\ lastOp' = "delete"
    /\ nOps' = nOps + 1
    /\ UNCHANGED <<decl, lastInsertRowid, read>>
    /\ UNCHANGED notWrite

\* the fields of the record scanned from a row
RecordOf(r) == [c \in Schema(decl).columns |-> r[c]]

Records(T) == {RecordOf(r) : r \in T}

\* QuerySlice with no condition: every row of the table
QuerySliceAll ==
    /\ nOps < MaxOps
    /\ read' = Records(table)
    /\ prev' = table
    /\ lastOp' = "query"
    /\ werr' = "nil"
    /\ stmts' = <<"select">>
    /\ nOps' = nOps + 1
    /\ UNCHANGED <<decl, table, lastInsertRowid, arg, m>>
    /\ UNCHANGED notWrite

\* the rows the fixture creates, through a connection of its own
FixtureRows(d) ==
    IF d = "compound" THEN {{}}
    ELSE {{}, {[c \in Schema(d).columns \cup {"rowid"} |->
                    IF c \in {"rowid", "id"} THEN n ELSE IF c = "field" THEN n ELSE 1]
                : n \in 1..MaxVal}}

InitWrite ==
    /\ IdleCall
    /\ IdleSync
    /\ IdleLoad
    /\ IdleHm
    /\ IdleRead
    /\ IdleNested
    /\ IdleTrip
    /\ decl \in Decls
    /\ table \in FixtureRows(decl)
    /\ lastInsertRowid = 0
    /\ arg = <<>>
    /\ m = <<>>
    /\ werr = ""
    /\ stmts = <<>>
    /\ prev = {}
    /\ lastOp = ""
    /\ nOps = 0
    /\ read = {}

NextWrite ==
    \/ \E v \in FieldValues : Upsert(v)
    \/ \E v \in FieldValues : Insert(v)
    \/ \E v \in FieldValues : \E deep \in BOOLEAN : Update(v, deep)
    \/ \E v \in FieldValues : Delete(v)
    \/ QuerySliceAll

SpecWrite == InitWrite /\ [][NextWrite]_vars

(***************************************************************************)
(* What the write path leaves.                                             *)
(***************************************************************************)
\* every primary field of the record is set
Keyed(info) == \A n \in DOMAIN info : isPkField(info[n]) => ~isZeroField(info[n])

\* C5: Upsert of a record with a zero primary field whose unique column
\* equals that of a stored row succeeds, updates that row, leaves the
\* number of rows as it was, and sets the primary field to the id of the row
UpsertResolvesUniqueConflict ==
    (decl = "unique" /\ lastOp = "upsert" /\ isZeroField(arg[1])) =>
        \A r \in prev :
            r.field = arg[2].val =>
                /\ werr = "nil"
                /\ Cardinality(table) = Cardinality(prev)
                /\ r \in table
                /\ m[1].val = r.id

\* the Upsert of the test: the first statement on its connection meets the
\* row of the fixture and the search finds its id
UpsertFoundExistingRow ==
    /\ decl = "unique" /\ lastOp = "upsert" /\ nOps = 1 /\ isZeroField(arg[1])
    /\ stmts = <<"upsert", "search">>
    /\ \E r \in prev : r.field = arg[2].val /\ m[1].val = r.id

\* C6: with a primary key of two columns, Upsert of a record leaves one row
\* for its key tuple and every row of another tuple as it was, Delete removes
\* the row of the record's tuple and no other, and the full-table QuerySlice
\* returns the rows of the table
KeyOf(rec) == <<rec.first_id, rec.second_id>>

CompositeKeyRoundTrip ==
    decl = "compound" =>
        LET key == <<arg[1].val, arg[2].val>>
            new == [first_id |-> arg[1].val, second_id |-> arg[2].val,
                    field |-> arg[3].val]
            others == {x \in Records(prev) : KeyOf(x) # key}
        IN  /\ \A r1, r2 \in table : KeyOf(r1) = KeyOf(r2) => r1 = r2
            /\ (lastOp = "upsert" /\ Keyed(arg)) =>
                    werr = "nil" /\ Records(table) = others \cup {new}
            /\ (lastOp = "delete" /\ Keyed(arg)) =>
                    werr = "nil" /\ Records(table) = others
            /\ lastOp = "query" => read = Records(table)

\* two records whose tuples share a component were upserted, and one of
\* them has been deleted
CompositeDeletedOneOfTwo ==
    /\ decl = "compound" /\ lastOp = "delete" /\ werr = "nil"
    /\ Cardinality(prev) = 2 /\ Cardinality(table) = 1
    /\ \E r \in table : r.first_id = arg[1].val /\ r.second_id # arg[2].val

\* the errors the database returns for a statement
SqlErrors ==
    {"sql: ON CONFLICT clause does not match any PRIMARY KEY or UNIQUE constraint",
     "sql: NOT NULL constraint failed", ErrConstraintUnique, ErrConstraintPrimaryKey,
     "sql: incomplete input",
     "sql: near \",\": syntax error", "sql: no such column: id", "sql: syntax error"}

\* C10: Upsert of a record whose many-to-many field has no junction table,
\* or whose related primary field has no ref, returns a configuration error,
\* has executed no statement and has written nothing
ConfigErrorBeforeAnyStatement ==
    (decl \in {"m2mNoTable", "m2mNoRef"} /\ lastOp = "upsert") =>
        /\ werr \notin {"nil"} \cup SqlErrors
        /\ stmts = <<>>
        /\ table = prev

\* an Upsert of such a record that wrote the record's own row
MisconfiguredUpsertWroteRow ==
    /\ decl \in {"m2mNoTable", "m2mNoRef"} /\ lastOp = "upsert"
    /\ Cardinality(table) = Cardinality(prev) + 1
    /\ werr = "sql: syntax error"

\* the rows of T whose primary columns equal the primary fields of the record
RowsOfKey(info, T) == {r \in T : DeleteWhere(info, r)}

\* the statement of the last operation ran and affected no row
AffectedNoRow ==
    /\ stmts # <<>>
    /\ werr \notin SqlErrors
    /\ \E n \in DOMAIN arg : isPkField(arg[n])
    /\ RowsOfKey(arg, prev) = {}

\* C11: an Update or a Delete whose statement affects no row returns
\* ErrNoRowsAffected, for which IsNotFound is true, and leaves the table as
\* it was
ZeroRowsIsNotFound ==
    (lastOp \in {"update", "delete"} /\ AffectedNoRow) =>
        IsNotFound(werr) /\ table = prev

\* the same statement for Update alone, which holds
ZeroRowsIsNotFoundUpdate == lastOp = "update" => ZeroRowsIsNotFound

\* an Update of a record whose key no row of a table with rows has
UpdateOfAbsentRow ==
    /\ lastOp = "update" /\ AffectedNoRow /\ prev # {}
    /\ IsNotFound(werr)

\* a Delete of such a record, which returned no error
DeleteOfAbsentRowSucceeded ==
    /\ lastOp = "delete" /\ AffectedNoRow /\ prev # {}
    /\ werr = "nil"

\* C12: Delete of a record whose type has no primary field, or one of whose
\* primary fields holds its zero value, returns an error, has executed no
\* statement and leaves the table as it was
DeleteNeedsPrimaryKey ==
    ( /\ lastOp = "delete"
      /\ \/ \A n \in DOMAIN arg : ~isPkField(arg[n])
         \/ \E n \in DOMAIN arg : isPkField(arg[n]) /\ isZeroField(arg[n]) )
        => /\ werr \in {"delete failed: model does not have primary key",
                        "delete failed: model's primary key has zero value"}
           /\ stmts = <<>>
           /\ table = prev

\* a Delete that was refused for the second field of a key of two, while a
\* row with the first field's value is stored
DeleteRefusedForSecondKeyField ==
    /\ decl = "compound" /\ lastOp = "delete"
    /\ ~isZeroField(arg[1]) /\ isZeroField(arg[2])
    /\ \E r \in table : r.first_id = arg[1].val
    /\ werr = "delete failed: model's primary key has zero value"

\* a row of T holds the value of a primary or unique column of the record
Collides(info, T) ==
    \E r \in T : \E n \in DOMAIN info :
        /\ isPkField(info[n]) \/ isUniqueField(info[n])
        /\ ~isZeroField(info[n])
        /\ (isPkField(info[n]) => RowsOfKey(info, {r}) # {})
        /\ (~isPkField(info[n]) => r[info[n].col] = info[n].val)

\* the row of the record: every column holds the value of its field
RowOfRecord(info, r) ==
    \A n \in DOMAIN info : (~isReferenceField(info[n]) /\ ~isZeroField(info[n]))
                                => r[info[n].col] = info[n].val

\* C13: Insert of a record that collides with a stored row on a primary or
\* unique column returns an error for which IsUniqueViolation is true and
\* leaves the table as it was; Upsert of the same record succeeds and the
\* row holds the values of the record
InsertFailsWhereUpsertOverwrites ==
    /\ (lastOp = "insert" /\ Collides(arg, prev)) =>
            IsUniqueViolation(werr) /\ table = prev
    /\ (lastOp = "upsert" /\ Collides(arg, prev) /\ decl \in {"unique", "uniqueOther", "compound"}) =>
            /\ werr = "nil"
            /\ Cardinality(table) = Cardinality(prev)
            /\ \E r \in table : RowOfRecord(arg, r)

\* an Insert that collided on the unique column only
InsertHitUniqueColumn ==
    /\ decl = "unique" /\ lastOp = "insert" /\ isZeroField(arg[1])
    /\ Collides(arg, prev)
    /\ IsUniqueViolation(werr) /\ table = prev

\* an Insert that collided on the primary column
InsertHitPrimaryColumn ==
    /\ decl = "unique" /\ lastOp = "insert" /\ ~isZeroField(arg[1])
    /\ RowsOfKey(arg, prev) # {}
    /\ werr = ErrConstraintPrimaryKey /\ table = prev

(***************************************************************************)
(* The has-many loader over parent keys of every kind.  The target type    *)
(* has one field of the parent's type (has_one,col=parent_id); a text is   *)
(* the sequence of its letters.                                            *)
(***************************************************************************)
KeyKinds == {"int64", "text", "composite"}

\* the texts a, ab and b
Texts == {<<1>>, <<1, 2>>, <<2>>}

\* the primary fields of the stored parent records, in declaration order
ParentKeys(kind) ==
    CASE kind = "int64" -> {<<SqlInt(n)>> : n \in 1..2}
      [] kind = "text" -> {<<SqlText(t)>> : t \in Texts}
      [] kind = "composite" -> {<<SqlInt(a), SqlInt(b)>> : a, b \in 1..2}

\* getRefModelPk: what the column parent_id of a row related to the parent
\* holds, the parent's first primary field (a text key, which getRefModelPk
\* does not write, is stored by the application)
getRefModelPk(P) == P[1]

\* the values the column parent_id may hold: NULL or a reference to a parent
BackReferences(kind) == {SqlNull} \cup {getRefModelPk(P) : P \in ParentKeys(kind)}

\* t occurs in s
Contains(s, t) == \E k \in 0..(Len(s) - Len(t)) : SubSeq(s, k + 1, k + Len(t)) = t

\* loadHasManyRelation: where[column of the back-reference] is assigned once
\* for every primary field of the parent, so the last one stays
HasManyWhere(pkFields) == pkFields[Len(pkFields)]

\* queryWithOptions: a string is compared by column like %v%, any other
\* value by column = v
WhereMatches(v, col) ==
    IF v[1] = "text" THEN col[1] = "text" /\ Contains(col[2], v[2])
    ELSE col = v

\* the caller's QueryStruct of a parent record
QueryParent ==
    /\ hmPc = "query"
    /\ \E P \in ParentKeys(keyKind) : hmParent' = P
    /\ hmPc' = "relations"
    /\ UNCHANGED <<keyKind, children, hmDepth, hmLoaded>>
    /\ UNCHANGED notHm

\* loadStructRelations and loadHasManyRelation of the parent that was read
LoadHasMany ==
    /\ hmPc = "relations"
    /\ hmLoaded' = IF hmDepth # 0
                   THEN {c \in DOMAIN children :
                            WhereMatches(HasManyWhere(hmParent), children[c])}
                   ELSE {}
    /\ hmPc' = "done"
    /\ UNCHANGED <<keyKind, children, hmDepth, hmParent>>
    /\ UNCHANGED notHm

InitHasMany ==
    /\ IdleCall
    /\ IdleSync
    /\ IdleLoad
    /\ IdleWrite
    /\ IdleRead
    /\ IdleNested
    /\ IdleTrip
    /\ keyKind \in KeyKinds
    /\ children \in [1..MaxChildren -> BackReferences(keyKind)]
    /\ hmDepth \in 0..1
    /\ hmParent = <<>>
    /\ hmPc = "query"
    /\ hmLoaded = {}

NextHasMany == QueryParent \/ LoadHasMany

SpecHasMany == InitHasMany /\ [][NextHasMany]_vars

\* C7: the has-many collection of a parent holds only rows whose
\* back-reference column is the reference to that parent, for int64, text
\* and composite parent keys
HasManyOnlyOwnRows ==
    hmPc = "done" =>
        \A c \in hmLoaded : children[c] = getRefModelPk(hmParent)

\* the same statement for a parent key of one int64 field, which holds
HasManyOnlyOwnRowsInt64 == keyKind = "int64" => HasManyOnlyOwnRows

\* a parent with an int64 key was read with one related row loaded and
\* one row of another parent left out
HasManyLoadedOwnRow ==
    /\ hmPc = "done" /\ keyKind = "int64"
    /\ hmLoaded # {} /\ hmLoaded # DOMAIN children
    /\ \A c \in DOMAIN children : children[c] # SqlNull

(***************************************************************************)
(* Reads that run at the same time.  Two goroutines call QueryStruct or    *)
(* QuerySlice on records of their own against a database nobody writes.    *)
(* Every call goes through queryWithOptions, which first draws a temp      *)
(* table name from the package-level rand source src: src.Int63 loads the  *)
(* state of the source and stores it back, with no lock.  QuerySlice then  *)
(* assigns opts.joins = nil.                                               *)
(***************************************************************************)
Readers == {1, 2}

\* what a call returns when it runs alone
SoloResult == "rows"

\* the other reader is between the load and the store of src.Int63
SourceContended(p) == \E q \in Readers \ {p} : rpc[q] = "int63"

\* a call begins: getTempTableName, src.Int63 loads the state of src
Int63Load(p) ==
    /\ rpc[p] = "start"
    /\ held' = [held EXCEPT ![p] = srcState]
    /\ rpc' = [rpc EXCEPT ![p] = "int63"]
    /\ UNCHANGED <<rkind, sharedOpts, srcState, rres, rcalls>>
    /\ UNCHANGED notRead

\* src.Int63 stores the state it computed from what it loaded; when the
\* other goroutine is inside src.Int63 too this is a data race, after which
\* the call goes on or panics with an index out of range
Int63Store(p) ==
    /\ rpc[p] = "int63"
    /\ srcState' = held[p] + 1
    /\ \E outcome \in (IF SourceContended(p) THEN {"goes on", "panics"} ELSE {"goes on"}) :
          IF outcome = "panics"
          THEN /\ rres' = [rres EXCEPT ![p] = "panic: index out of range"]
               /\ rpc' = [rpc EXCEPT ![p] = "done"]
               /\ rcalls' = [rcalls EXCEPT ![p] = @ + 1]
          ELSE /\ rpc' = [rpc EXCEPT ![p] = "query"]
               /\ UNCHANGED <<rres, rcalls>>
    /\ UNCHANGED <<rkind, sharedOpts, held>>
    /\ UNCHANGED notRead

\* queryWithOptions reads opts and runs the select; QueryStruct returns
Select(p) ==
    /\ rpc[p] = "query"
    /\ rres' = [rres EXCEPT ![p] = SoloResult]
    /\ IF rkind[p] = "slice"
       THEN /\ rpc' = [rpc EXCEPT ![p] = "clear"]
            /\ UNCHANGED rcalls
       ELSE /\ rpc' = [rpc EXCEPT ![p] = "done"]
            /\ rcalls' = [rcalls EXCEPT ![p] = @ + 1]
    /\ UNCHANGED <<rkind, sharedOpts, srcState, held>>
    /\ UNCHANGED notRead

\* QuerySliceCountContext assigns opts.joins = nil and returns
ClearJoins(p) ==
    /\ rpc[p] = "clear"
    /\ rpc' = [rpc EXCEPT ![p] = "done"]
    /\ rcalls' = [rcalls EXCEPT ![p] = @ + 1]
    /\ UNCHANGED <<rkind, sharedOpts, srcState, held, rres>>
    /\ UNCHANGED notRead

\* the goroutine makes its next call
ReadAgain(p) ==
    /\ rpc[p] = "done"
    /\ rcalls[p] < MaxReads
    /\ rres[p] = SoloResult
    /\ rpc' = [rpc EXCEPT ![p] = "start"]
    /\ rres' = [rres EXCEPT ![p] = ""]
    /\ UNCHANGED <<rkind, sharedOpts, srcState, held, rcalls>>
    /\ UNCHANGED notRead

InitReaders ==
    /\ IdleCall
    /\ IdleSync
    /\ IdleLoad
    /\ IdleWrite
    /\ IdleHm
    /\ IdleNested
    /\ IdleTrip
    /\ rkind \in [Readers -> {"struct", "slice"}]
    /\ sharedOpts \in BOOLEAN
    /\ rpc = [p \in Readers |-> "start"]
    /\ srcState = 0
    /\ held = [p \in Readers |-> 0]
    /\ rres = [p \in Readers |-> ""]
    /\ rcalls = [p \in Readers |-> 0]

NextReaders ==
    \E p \in Readers : \/ Int63Load(p)
                       \/ Int63Store(p)
                       \/ Select(p)
                       \/ ClearJoins(p)
                       \/ ReadAgain(p)

SpecReaders == InitReaders /\ [][NextReaders]_vars

\* both goroutines are inside src.Int63: one stores the state of src while
\* the other has loaded it
SourceRace == \E p \in Readers : rpc[p] = "int63" /\ SourceContended(p)

\* a goroutine is about to assign opts.joins while the other reads or
\* assigns the same Options
OptionsRace ==
    /\ sharedOpts
    /\ \E p \in Readers : \E q \in Readers \ {p} :
          rpc[p] = "clear" /\ rpc[q] \in {"query", "clear"}

\* C9: reads that run at the same time return what they return alone, and
\* neither the rand source src nor a shared Options is written by one call
\* while the other reads or writes it
ConcurrentReadsAreSafe ==
    /\ \A p \in Readers : rpc[p] = "done" => rres[p] = SoloResult
    /\ ~SourceRace
    /\ ~OptionsRace

\* both calls ended with their rows although they ran at the same time
BothReadsReturnedRows ==
    /\ \A p \in Readers : rpc[p] = "done" /\ rres[p] = SoloResult /\ rcalls[p] = 1
    /\ srcState = 1

(***************************************************************************)
(* The write path of a record with nested records: insert with its         *)
(* has-one fields first, then syncRelations.  The records are those of     *)
(* autoCreateRelatedFixture: main_model has a has-one to base_model, a      *)
(* has-many of has_many_model, whose has-one Related is the back-reference, *)
(* and a many-to-many; here base_model and has_many_model have a            *)
(* many-to-many field as well.                                              *)
(***************************************************************************)
Tags == 1..MaxTag

\* the declarations of the primary field of base_model: an int64, an int, or
\* an int64 that is the only column of the record
BaseDecls == {"int64", "int", "pkOnly"}

\* getModelInfo of a record of type t: the Go kind of the primary field,
\* whether there is a regular column, and the relation fields
modelDecl(bd, t) ==
    CASE t = "main" -> [pkKind |-> "int64", column |-> TRUE, hasOne |-> TRUE,
                        oneType |-> "base", hasMany |-> TRUE]
      [] t = "base" -> [pkKind |-> IF bd = "int" THEN "int" ELSE "int64",
                        column |-> bd # "pkOnly", hasOne |-> FALSE,
                        oneType |-> "", hasMany |-> FALSE]
      [] t = "item" -> [pkKind |-> "int64", column |-> FALSE, hasOne |-> TRUE,
                        oneType |-> "main", hasMany |-> FALSE]

\* a record: its primary field, its regular field, the has-one pointer (a
\* sequence that is empty for nil), the has-many slice and the identities
\* of the many-to-many slice; self marks a pointer to the record that holds
\* this one in its has-many slice
Rec(t, id, val, one, many, m2m) ==
    [type |-> t, id |-> id, val |-> val, one |-> one, many |-> many,
     m2m |-> m2m, self |-> FALSE]

ParentRef == [Rec("main", 0, 0, <<>>, <<>>, {}) EXCEPT !.self = TRUE]

\* a row of a table: the primary key, the regular column and the has-one
\* column
NRow(id, val, fk) == [id |-> id, val |-> val, fk |-> fk]

\* the rowid sqlite gives a row inserted without one
NextRowid(rows) ==
    IF rows = {} THEN 1
    ELSE (CHOOSE n \in {r.id : r \in rows} : \A r \in rows : r.id <= n) + 1

\* the primary key of the record a has-one pointer leads to
pkOfTarget(r, owner) == IF r.self THEN owner.id ELSE r.id

\* getRefModelPk: a pointer to the primary key of the has-one target when
\* the key is an int64 and not zero, nil otherwise
refModelPk(bd, one, owner) ==
    IF one = <<>> THEN SqlNull
    ELSE IF pkOfTarget(one[1], owner) # 0
            /\ modelDecl(bd, one[1].type).pkKind = "int64"
         THEN SqlInt(pkOfTarget(one[1], owner))
         ELSE SqlNull

\* reflect.Type of a model's value and of a has-one field
StructType(t) == <<"struct", t>>
PointerType(t) == <<"ptr", t>>
AssignableTo(a, b) == a = b

\* syncManyToManyRelation of the record: the junction rows of the record
\* become those of its collection
syncManyToManyOfModel(rec, db) ==
    LET stored == {l \in db.links : l[1] = rec.type /\ l[2] = rec.id}
        desired == {<<rec.type, rec.id, t>> : t \in rec.m2m}
    IN  [db EXCEPT !.links = (@ \ (stored \ desired)) \cup desired]

RECURSIVE insertModel(_, _, _, _, _)
RECURSIVE syncHasOneRelation(_, _, _, _, _)
RECURSIVE syncHasManyRelation(_, _, _, _, _)
RECURSIVE syncRelationsOfModel(_, _, _, _, _)
RECURSIVE syncHasManyRelationPastExisting(_, _, _, _, _)

\* syncHasOneRelation: nothing for a nil pointer and for a target that has
\* a primary key; a target without one is inserted
syncHasOneRelation(ins, bd, one, db, owner) ==
    IF one = <<>> THEN [db |-> db, one |-> one]
    ELSE IF pkOfTarget(one[1], owner) # 0 \/ one[1].self
         THEN [db |-> db, one |-> one]
         ELSE LET r == insertModel(ins, bd, one[1], db, owner)
              IN  [db |-> r.db, one |-> <<r.rec>>]

\* the loop, were an element that has a primary key passed over and the
\* elements after it inserted
syncHasManyRelationPastExisting(ins, bd, many, db, model) ==
    IF many = <<>> THEN [db |-> db, many |-> many]
    ELSE LET e == Head(many)
         IN  IF e.id # 0
             THEN LET rest == syncHasManyRelationPastExisting(ins, bd, Tail(many), db, model)
                  IN  [db |-> rest.db, many |-> <<e>> \o rest.many]
             ELSE LET r == insertModel(ins, bd, e, db, model)
                      rest == syncHasManyRelationPastExisting(ins, bd, Tail(many), r.db, model)
                  IN  [db |-> rest.db, many |-> <<r.rec>> \o rest.many]

\* syncHasManyRelation: the elements in order; the back-reference is set
\* when the type of the model's value is assignable to the field; the loop
\* ends at the first element that has a primary key; the others are
\* inserted with the same inserter
syncHasManyRelation(ins, bd, many, db, model) ==
    IF many = <<>> THEN [db |-> db, many |-> many]
    ELSE LET e == Head(many)
             patched == IF AssignableTo(StructType(model.type),
                                        PointerType(modelDecl(bd, e.type).oneType))
                        THEN [e EXCEPT !.one = <<ParentRef>>]
                        ELSE e
         IN  IF patched.id # 0 THEN [db |-> db, many |-> many]
             ELSE LET r == insertModel(ins, bd, patched, db, model)
                      rest == syncHasManyRelation(ins, bd, Tail(many), r.db, model)
                  IN  [db |-> rest.db, many |-> <<r.rec>> \o rest.many]

\* syncRelations: nothing when the inserter has synchronized relations
\* before; otherwise the fields in the order of their declaration
syncRelationsOfModel(ins, bd, rec, db, owner) ==
    IF ins.depth > 0 THEN [db |-> db, rec |-> rec]
    ELSE LET deeper == [ins EXCEPT !.depth = @ + 1]
             d == modelDecl(bd, rec.type)
             one == IF d.hasOne
                    THEN syncHasOneRelation(deeper, bd, rec.one, db, owner)
                    ELSE [db |-> db, one |-> rec.one]
             r1 == [rec EXCEPT !.one = one.one]
             many == IF d.hasMany
                     THEN syncHasManyRelation(deeper, bd, r1.many, one.db, r1)
                     ELSE [db |-> one.db, many |-> r1.many]
             r2 == [r1 EXCEPT !.many = many.many]
         IN  [db |-> syncManyToManyOfModel(r2, many.db), rec |-> r2]

\* inserter.insert: the has-one fields with an inserter of their own, the
\* statement when it has arguments (a row without a primary key gets the
\* next rowid, a row with one replaces the row of that key: only the record
\* that Upsert was called with has one), setModelPk, syncRelations
insertModel(ins, bd, rec, db, owner) ==
    LET d == modelDecl(bd, rec.type)
        pre == IF d.hasOne
               THEN syncHasOneRelation(inserter(FALSE), bd, rec.one, db, owner)
               ELSE [db |-> db, one |-> rec.one]
        r1 == [rec EXCEPT !.one = pre.one]
        hasArgs == rec.id # 0 \/ d.column \/ d.hasOne
        id == IF rec.id # 0 THEN rec.id ELSE NextRowid(pre.db.rows[rec.type])
        row == NRow(id, IF d.column THEN rec.val ELSE 0,
                    IF d.hasOne THEN refModelPk(bd, r1.one, owner) ELSE SqlNull)
        db2 == IF hasArgs
               THEN [pre.db EXCEPT !.rows[rec.type] = {x \in @ : x.id # id} \cup {row}]
               ELSE pre.db
        r2 == IF hasArgs THEN [r1 EXCEPT !.id = id] ELSE r1
    IN  syncRelationsOfModel(ins, bd, r2, db2, owner)

\* the records a caller passes
BaseRecs == {Rec("base", id, 2, <<>>, <<>>, ts) : id \in 0..1, ts \in {{}, {1}}}

CallerBackReferences == {<<>>, <<ParentRef>>, <<Rec("main", 1, 1, <<>>, <<>>, {})>>}

ItemRecs == {Rec("item", id, 0, back, <<>>, {1}) :
                id \in 0..1, back \in CallerBackReferences}

MainRecs ==
    {Rec("main", id, 1, one, many, ts) :
        id \in 0..1,
        one \in {<<>>} \cup {<<b>> : b \in BaseRecs},
        many \in UNION {[1..n -> ItemRecs] : n \in 0..MaxItems},
        ts \in SUBSET Tags}

\* Upsert of a record with nested records
UpsertModel ==
    /\ ~ncall.done
    /\ \E rec \in MainRecs :
          LET r == insertModel(inserter(TRUE), ncall.decl, rec, nstore, rec)
          IN  /\ nstore' = r.db
              /\ ncall' = [ncall EXCEPT !.done = TRUE, !.arg = <<rec>>,
                                        !.out = <<r.rec>>]
    /\ UNCHANGED notNested

\* the tables hold a row of each type or none, and junction rows of rows
\* that were deleted or none
InitNested ==
    /\ IdleCall
    /\ IdleSync
    /\ IdleLoad
    /\ IdleWrite
    /\ IdleHm
    /\ IdleRead
    /\ IdleTrip
    /\ \E mainRows \in {{}, {NRow(1, 1, SqlNull)}} :
       \E baseRows \in {{}, {NRow(1, 1, SqlNull)}} :
       \E links \in {{}, {<<"main", 1, 2>>, <<"base", 2, 2>>}} :
          nstore = [rows |-> [t \in NestedTypes |->
                                 CASE t = "main" -> mainRows
                                   [] t = "base" -> baseRows
                                   [] t = "item" -> {}],
                    links |-> links]
    /\ \E bd \in BaseDecls :
          ncall = [decl |-> bd, done |-> FALSE, arg |-> <<>>, out |-> <<>>,
                   before |-> nstore]

NextNested == UpsertModel

SpecNested == InitNested /\ [][NextNested]_vars

(***************************************************************************)
(* What Upsert does to the nested records.                                 *)
(***************************************************************************)
\* the record as it was passed and as it is after the call
NestedArg == ncall.arg[1]
NestedOut == ncall.out[1]

\* the junction rows the call inserted or deleted
LinksChanged ==
    (nstore.links \ ncall.before.links) \cup (ncall.before.links \ nstore.links)

\* the keys of the rows of a table
RowIds(rows) == {r.id : r \in rows}

\* the elements of the has-many slice that have no primary key and come
\* before every element that has one
NewElements ==
    {i \in 1..Len(NestedArg.many) : \A j \in 1..i : NestedArg.many[j].id = 0}

\* C14: during one Upsert junction rows are inserted or deleted only for
\* the many-to-many fields of the record Upsert was called with; the
\* many-to-many fields of the records reached through its has-one and
\* has-many fields are not reconciled, newly created or not
SyncIsOneHop ==
    ncall.done =>
        \A l \in LinksChanged : l[1] = "main" /\ l[2] = NestedOut.id

\* the part of it about the elements of the has-many slice, which holds
SyncSkipsHasManyElements ==
    ncall.done => \A l \in LinksChanged : l[1] # "item"

\* a has-one target was created and junction rows of its many-to-many field
\* were written
HasOneTargetLinksWritten ==
    /\ ncall.done
    /\ NestedArg.one # <<>>
    /\ NestedArg.one[1].id = 0
    /\ NestedOut.one[1].id # 0
    /\ <<"base", NestedOut.one[1].id, 1>> \in LinksChanged

\* an element with a collection was created and no junction row of it was
\* written
NewElementWithoutLinks ==
    /\ ncall.done
    /\ \E i \in NewElements :
          /\ NestedArg.many[i].m2m # {}
          /\ NestedOut.many[i].id \in RowIds(nstore.rows["item"])
          /\ \A l \in nstore.links : l[1] # "item"

\* what the has-one write path is to leave behind: a target that had a
\* primary key is not written; one that had none is inserted once and has
\* its key; the has-one column of the parent's row is the key of the target
HasOneStored ==
    LET R == NestedArg.one[1]
        Rout == NestedOut.one[1]
    IN  /\ R.id # 0 => nstore.rows["base"] = ncall.before.rows["base"]
        /\ R.id = 0 =>
              /\ Rout.id # 0
              /\ Rout.id \notin RowIds(ncall.before.rows["base"])
              /\ nstore.rows["base"] =
                    ncall.before.rows["base"] \cup {NRow(Rout.id, R.val, SqlNull)}
        /\ \E p \in nstore.rows["main"] :
              p.id = NestedOut.id /\ p.fk = SqlInt(Rout.id)

\* C15: after Upsert of a parent whose has-one field holds a record R, no
\* row of R's table was written if R had a primary key, R was inserted
\* exactly once and has its identity if it had none, and in both cases the
\* parent's stored foreign-key column is R's primary key
HasOneWritePath ==
    (ncall.done /\ NestedArg.one # <<>>) => HasOneStored

\* the same for a target whose primary field is an int64 beside another
\* column, which holds
HasOneWritePathInt64 ==
    (ncall.done /\ NestedArg.one # <<>> /\ ncall.decl = "int64") => HasOneStored

\* a target whose primary field is an int was inserted and the parent's
\* column is NULL
IntKeyTargetStoredAsNull ==
    /\ ncall.done /\ ncall.decl = "int"
    /\ NestedArg.one # <<>>
    /\ NestedArg.one[1].id = 0
    /\ NestedOut.one[1].id \in RowIds(nstore.rows["base"]) \ RowIds(ncall.before.rows["base"])
    /\ \E p \in nstore.rows["main"] : p.id = NestedOut.id /\ p.fk = SqlNull

\* a target with an int64 key was inserted and the parent's column holds
\* the key
Int64TargetInserted ==
    /\ ncall.done /\ ncall.decl = "int64"
    /\ NestedArg.one # <<>>
    /\ NestedArg.one[1].id = 0
    /\ ncall.before.rows["base"] # {}
    /\ HasOneStored

\* a target that had a key and other values than its row was left as it was
PersistedTargetLeftAlone ==
    /\ ncall.done /\ ncall.decl = "int64"
    /\ NestedArg.one # <<>>
    /\ NestedArg.one[1].id = 1
    /\ \E r \in nstore.rows["base"] : r.id = 1 /\ r.val # NestedArg.one[1].val
    /\ HasOneStored

\* C16: after Upsert of a parent P every element of its has-many slice that
\* had no primary key, and comes before any element that has one, has been
\* inserted with its back-reference set to P: its stored back-reference
\* column is P's identity whatever the caller left in the field
HasManyBackReference ==
    ncall.done =>
        \A i \in NewElements :
            /\ NestedOut.many[i].id # 0
            /\ \E r \in nstore.rows["item"] :
                  r.id = NestedOut.many[i].id /\ r.fk = SqlInt(NestedOut.id)

\* the same for the elements whose back-reference the caller pointed to the
\* parent, which holds
HasManyBackReferenceOfCaller ==
    ncall.done =>
        \A i \in NewElements :
            NestedArg.many[i].one = <<ParentRef>> =>
                /\ NestedOut.many[i].id # 0
                /\ \E r \in nstore.rows["item"] :
                      r.id = NestedOut.many[i].id /\ r.fk = SqlInt(NestedOut.id)

\* an element whose back-reference the caller left nil was inserted with a
\* NULL back-reference column
ElementStoredWithoutParent ==
    /\ ncall.done
    /\ \E i \in NewElements :
          /\ NestedArg.many[i].one = <<>>
          /\ NestedOut.many[i].one = <<>>
          /\ \E r \in nstore.rows["item"] :
                r.id = NestedOut.many[i].id /\ r.fk = SqlNull

\* two elements that point to the parent were inserted for a parent that
\* got its key in the call
ElementsOfCallerReferenceStored ==
    /\ ncall.done
    /\ NestedArg.id = 0
    /\ NewElements = {1, 2}
    /\ \A i \in NewElements : NestedArg.many[i].one = <<ParentRef>>
    /\ \A i \in NewElements :
          \E r \in nstore.rows["item"] :
              r.id = NestedOut.many[i].id /\ r.fk = SqlInt(NestedOut.id)

\* C23: the elements of a has-many collection are processed in the order
\* of the collection: every element without a primary key that precedes the
\* first element with one is inserted once, and from the first element with
\* a primary key on no element is written, later elements without a
\* primary key included
HasManyWriteOrder ==
    ncall.done =>
        LET A == NestedArg.many
            O == NestedOut.many
            old == ncall.before.rows["item"]
            new == nstore.rows["item"]
        IN  /\ Len(O) = Len(A)
            /\ \A i \in NewElements :
                  /\ O[i].id # 0
                  /\ O[i].id \notin RowIds(old)
                  /\ Cardinality({r \in new : r.id = O[i].id}) = 1
                  /\ \A j \in NewElements : i < j => O[i].id < O[j].id
            /\ \A i \in (1..Len(A)) \ NewElements : O[i] = A[i]
            /\ old \subseteq new
            /\ RowIds(new) = RowIds(old) \cup {O[i].id : i \in NewElements}
            /\ Cardinality(new) = Cardinality(old) + Cardinality(NewElements)

\* an element without a primary key was inserted, the element with a
\* primary key after it was not written
NewElementBeforeExisting ==
    /\ ncall.done
    /\ Len(NestedArg.many) = 2
    /\ NestedArg.many[1].id = 0
    /\ NestedArg.many[2].id # 0
    /\ RowIds(nstore.rows["item"]) = {NestedOut.many[1].id}

\* an element without a primary key that comes after one with a primary key
\* was not inserted
NewElementAfterExisting ==
    /\ ncall.done
    /\ Len(NestedArg.many) = 2
    /\ NestedArg.many[1].id # 0
    /\ NestedArg.many[2].id = 0
    /\ NestedOut.many[2].id = 0
    /\ nstore.rows["item"] = {}

(***************************************************************************)
(* A many-to-many collection written by Upsert and read back by            *)
(* QueryStruct.  The write path addresses the junction table through       *)
(* buildJoinQuery, buildInsertRelationQuery and buildDeleteRelationQuery,  *)
(* the read path through loadManyToManyRelation.  A row of the junction    *)
(* table is a function from its columns to their values; copies of a row   *)
(* are not told apart, since the statements of both paths treat them       *)
(* alike.                                                                  *)
(***************************************************************************)
TripDecls == {"scalar", "compositeTarget", "compositeParent", "self"}

\* the settings of a declaration: the ref= of the primary fields of the
\* record, the field= of its collection split on ",", and the ref= of the
\* primary fields of the target:
\*   scalar           modelManyToMany and relatedModel
\*   compositeTarget  modelManyToManyWithCompoundPK
\*   compositeParent  a record with two primary fields and no field=
\*   self             MTMModel, whose collection holds records of its type
tripDecl(d) ==
    CASE d = "scalar" ->
            [parentRefs |-> <<"m_id">>, field |-> <<"m_id">>,
             targetRefs |-> <<"rel_id">>]
      [] d = "compositeTarget" ->
            [parentRefs |-> <<"model_id">>, field |-> <<"model_id">>,
             targetRefs |-> <<"first_id_ref", "second_id_ref">>]
      [] d = "compositeParent" ->
            [parentRefs |-> <<"first_id_ref", "second_id_ref">>, field |-> <<>>,
             targetRefs |-> <<"rel_id">>]
      [] d = "self" ->
            [parentRefs |-> <<"model_id">>, field |-> <<"parent_id">>,
             targetRefs |-> <<"model_id">>]

\* the columns of the junction table
JColumns(d) ==
    Range(tripDecl(d).parentRefs) \cup Range(tripDecl(d).field)
        \cup Range(tripDecl(d).targetRefs)

KeyValues == 1..MaxKey

\* the values of a primary key, as the driver binds and scans them
KeysOf(refs) == [1..Len(refs) -> {SqlInt(v) : v \in KeyValues}]

\* the rows a junction table may hold
TripRows(d) == [JColumns(d) -> {SqlInt(v) : v \in KeyValues}]

\* the values of the columns cols of a row
Project(row, cols) == [i \in 1..Len(cols) |-> row[cols[i]]]

\* buildJoinQuery and getStoredRelations: the target columns of the rows
\* whose columns named by the ref= of the record's primary fields hold the
\* record's key
storedRelations(d, J, P) ==
    {Project(row, tripDecl(d).targetRefs) :
        row \in {r \in J : Project(r, tripDecl(d).parentRefs) = P}}

\* the row that insert into t(cols) values(vals) stores: of a column that
\* is named twice the first value, NULL in a column that is not named
InsertedRow(d, cols, vals) ==
    [c \in JColumns(d) |->
        IF c \in Range(cols)
        THEN vals[CHOOSE i \in 1..Len(cols) :
                    cols[i] = c /\ \A j \in 1..(i - 1) : cols[j] # c]
        ELSE SqlNull]

\* buildInsertRelationQuery: the columns of the select, then the ref= of the
\* record's primary fields
buildInsertRelationRow(d, keys, P) ==
    InsertedRow(d, tripDecl(d).targetRefs \o tripDecl(d).parentRefs, keys \o P)

\* buildDeleteRelationQuery: the rows that hold the keys in the columns of
\* the select and the record's key in the ref= columns
deletedRelationRows(d, J, keys, P) ==
    {r \in J : /\ Project(r, tripDecl(d).targetRefs) = keys
               /\ Project(r, tripDecl(d).parentRefs) = P}

\* syncManyToManyRelation: a row for every key of the collection that is not
\* stored, then the rows of the stored keys that are not in the collection
\* are deleted; a delete that affects no row is an error
syncTrip(d, J, P, D) ==
    LET stored == storedRelations(d, J, P)
        inserted == J \cup {buildInsertRelationRow(d, k, P) : k \in D \ stored}
        gone == UNION {deletedRelationRows(d, inserted, k, P) : k \in stored \ D}
    IN  IF \E k \in stored \ D : deletedRelationRows(d, inserted, k, P) = {}
        THEN [J |-> inserted, err |-> "delete query din't affect any row"]
        ELSE [J |-> inserted \ gone, err |-> "nil"]

\* loadManyToManyRelation: the columns of the condition are those of field=
\* when it is set, else the ref= of the record's primary fields; every one
\* of them is compared with the first primary field of the record; the
\* targets whose keys the rows hold are loaded
loadTrip(d, J, P) ==
    LET dc == tripDecl(d)
        where == IF dc.field # <<>> THEN dc.field ELSE dc.parentRefs
    IN  IF dc.field # <<>> /\ Len(dc.field) # Len(P)
        THEN [got |-> {}, err |-> "field count does not match count of primary fields"]
        ELSE [got |-> {k \in KeysOf(dc.targetRefs) :
                          \E r \in J :
                              /\ \A i \in 1..Len(P) : r[where[i]] = P[1]
                              /\ Project(r, dc.targetRefs) = k},
              err |-> "nil"]

\* Upsert of the record: its junction rows are synchronized
TripUpsert ==
    /\ trip.pc = "upsert"
    /\ LET r == syncTrip(trip.decl, trip.J, trip.P, trip.D)
       IN  trip' = [trip EXCEPT !.J = r.J, !.err = r.err,
                                !.pc = IF r.err = "nil" THEN "query" ELSE "done"]
    /\ UNCHANGED notTrip

\* QueryStruct of the record with RelationDepth 1 and no limit
TripQueryStruct ==
    /\ trip.pc = "query"
    /\ LET r == loadTrip(trip.decl, trip.J, trip.P)
       IN  trip' = [trip EXCEPT !.got = r.got, !.err = r.err, !.pc = "done"]
    /\ UNCHANGED notTrip

\* a record with a key and a collection of targets that exist; the junction
\* table holds at most MaxStored rows
InitTrip ==
    /\ IdleCall
    /\ IdleSync
    /\ IdleLoad
    /\ IdleWrite
    /\ IdleHm
    /\ IdleRead
    /\ IdleNested
    /\ \E d \in TripDecls :
       \E J \in SubsetsUpTo(TripRows(d), MaxStored) :
       \E P \in KeysOf(tripDecl(d).parentRefs) :
       \E D \in SUBSET KeysOf(tripDecl(d).targetRefs) :
          trip = [decl |-> d, pc |-> "upsert", J |-> J, before |-> J, P |-> P,
                  D |-> D, got |-> {}, err |-> ""]

NextTrip == TripUpsert \/ TripQueryStruct

SpecTrip == InitTrip /\ [][NextTrip]_vars

\* the call pair returned without an error
TripRead == trip.pc = "done" /\ trip.err = "nil"

\* C17: after Upsert of a record with a many-to-many collection whose
\* identity set is D, QueryStruct of the record with a relation depth of 1
\* or more and no limit yields a collection whose identity set is D, for
\* scalar and composite keys of the record, scalar and composite keys of
\* the targets, and a field= setting that is not the record's ref= setting
ManyToManyRoundTrip ==
    TripRead => trip.got = trip.D

\* the same for a record with one primary field whose ref= is the column of
\* field=, which holds
ManyToManyRoundTripOneColumn ==
    (TripRead /\ trip.decl \in {"scalar", "compositeTarget"}) => trip.got = trip.D

\* a record with two primary fields of different values wrote its
\* collection and read back none of it
CompositeParentReadNothing ==
    /\ TripRead
    /\ trip.decl = "compositeParent"
    /\ trip.P[1] # trip.P[2]
    /\ trip.D # {}
    /\ storedRelations(trip.decl, trip.J, trip.P) = trip.D
    /\ trip.got = {}

\* a record with a collection of its own type wrote rows that have no value
\* in the column of field=
SelfCollectionStoredWithoutParent ==
    /\ TripRead
    /\ trip.decl = "self"
    /\ trip.D # {}
    /\ \E r \in trip.J \ trip.before : r["parent_id"] = SqlNull
    /\ trip.got # trip.D

\* a collection of targets with composite keys replaced another and was
\* read back
CompositeTargetsReadBack ==
    /\ TripRead
    /\ trip.decl = "compositeTarget"
    /\ Cardinality(trip.D) = 2
    /\ storedRelations(trip.decl, trip.before, trip.P) \ trip.D # {}
    /\ trip.D \ storedRelations(trip.decl, trip.before, trip.P) # {}
    /\ trip.got = trip.D

(***************************************************************************)
(* Update and UpdateDeep of a record with a many-to-many collection, and   *)
(* the QueryStruct that reads it back.  The record has a regular field     *)
(* name; its table holds a row for some of the keys.                       *)
(***************************************************************************)
\* the declarations whose record has one primary field
UpdateDecls == {"scalar", "compositeTarget", "self"}

\* a row of the record's table
OwnRowOf(key, name) == [key |-> key, name |-> name]

\* buildUpdateQuery and its execution: update t set name = ? where pk = ?
ExecUpdateName(rows, key, name) ==
    [rows |-> {IF r.key = key THEN OwnRowOf(key, name) ELSE r : r \in rows},
     affected |-> Cardinality({r \in rows : r.key = key})]

\* inserter.update, were the relations synchronized whatever deep is
updateDeepAlways(t) ==
    LET r == ExecUpdateName(t.rows, t.P, t.name)
        rel == syncTrip(t.decl, t.J, t.P, t.D)
    IN  IF r.affected = 0
        THEN [t EXCEPT !.err = ErrNoRowsAffected, !.pc = "done"]
        ELSE [t EXCEPT !.rows = r.rows, !.J = rel.J, !.err = rel.err,
                       !.pc = IF rel.err = "nil" THEN "query" ELSE "done"]

\* inserter.update: the update statement, ErrNoRowsAffected when no row was
\* affected, syncRelations when deep
updateTrip(t) ==
    LET r == ExecUpdateName(t.rows, t.P, t.name)
        rel == syncTrip(t.decl, t.J, t.P, t.D)
    IN  IF r.affected = 0
        THEN [t EXCEPT !.err = ErrNoRowsAffected, !.pc = "done"]
        ELSE IF t.deep
        THEN [t EXCEPT !.rows = r.rows, !.J = rel.J, !.err = rel.err,
                       !.pc = IF rel.err = "nil" THEN "query" ELSE "done"]
        ELSE [t EXCEPT !.rows = r.rows, !.err = "nil", !.pc = "query"]

\* Update or UpdateDeep of the record
TripUpdate ==
    /\ trip.pc = "update"
    /\ trip' = updateTrip(trip)
    /\ UNCHANGED notTrip

\* a record with a key, a new name and a collection; its table holds rows
\* of the old name, the junction table at most MaxStored rows
InitUpdate ==
    /\ IdleCall
    /\ IdleSync
    /\ IdleLoad
    /\ IdleWrite
    /\ IdleHm
    /\ IdleRead
    /\ IdleNested
    /\ \E d \in UpdateDecls :
       \E J \in SubsetsUpTo(TripRows(d), MaxStored) :
       \E P \in KeysOf(tripDecl(d).parentRefs) :
       \E D \in SUBSET KeysOf(tripDecl(d).targetRefs) :
       \E rows \in SUBSET {OwnRowOf(K, 1) : K \in KeysOf(tripDecl(d).parentRefs)} :
       \E deep \in BOOLEAN :
          trip = [decl |-> d, pc |-> "update", J |-> J, before |-> J, P |-> P,
                  D |-> D, got |-> {}, err |-> "", deep |-> deep, name |-> 2,
                  rows |-> rows, rowsBefore |-> rows]

NextUpdate == TripUpdate \/ TripQueryStruct

SpecUpdate == InitUpdate /\ [][NextUpdate]_vars

\* the update statement has been executed and has affected a row
Updated == trip.pc \in {"query", "done"} /\ trip.err # ErrNoRowsAffected

\* C24: Update writes the record's own row only: the rows of the junction
\* table and the other rows are as they were, and a load after it returns
\* the relations that were stored before; UpdateDeep is what runs the
\* synchronizer on the record's collections
UpdateWritesOwnRowOnly ==
    /\ (Updated /\ ~trip.deep) =>
          /\ trip.J = trip.before
          /\ trip.rows = {IF r.key = trip.P THEN OwnRowOf(trip.P, trip.name) ELSE r :
                             r \in trip.rowsBefore}
          /\ trip.err = "nil"
          /\ trip.pc = "done" =>
                trip.got = loadTrip(trip.decl, trip.before, trip.P).got
    /\ (Updated /\ trip.deep) =>
          /\ trip.J = syncTrip(trip.decl, trip.before, trip.P, trip.D).J
          /\ {r \in trip.rows : r.key # trip.P} = {r \in trip.rowsBefore : r.key # trip.P}

\* an update of a record whose collection is not what is stored left the
\* stored links, which the load after it returned
UpdateKeptStoredLinks ==
    /\ Updated
    /\ ~trip.deep
    /\ trip.pc = "done"
    /\ trip.decl = "scalar"
    /\ trip.D # storedRelations(trip.decl, trip.before, trip.P)
    /\ trip.got = storedRelations(trip.decl, trip.before, trip.P)
    /\ trip.got # {}
    /\ OwnRowOf(trip.P, 2) \in trip.rows
    /\ Cardinality(trip.rows) = 2

\* a deep update replaced the stored links by the record's collection
UpdateDeepReplacedLinks ==
    /\ Updated
    /\ trip.deep
    /\ trip.err = "nil"
    /\ trip.J # trip.before
    /\ trip.D # {}
    /\ storedRelations(trip.decl, trip.before, trip.P) \ trip.D # {}

(***************************************************************************)
(* What an operation returns when one of its statements fails.  Every      *)
(* operation executes its statements in order; a statement is its SQL text *)
(* and the values bound to it, a text being the statement's kind and the   *)
(* table it names.  The record type is m2m of the table "m", its junction  *)
(* table "peers"; the bound values are those of the predicate map or of    *)
(* the record's fields.                                                    *)
(***************************************************************************)
ReportOps == {"QueryStruct", "QuerySlice", "QuerySliceCount", "Count", "Upsert",
              "Update", "UpdateDeep", "Delete"}

\* getTempTableName: the names the random source may give
TempTableNames == {"t1", "t2"}

\* &Error{err, q, a}
Error(q, a) == <<"Error", q, a>>

\* an error value that is not an *Error
PlainError == <<"error">>

\* a statement: its text, its bound values, and what the code that executes
\* it returns when it fails
Stmt(q, a, onError) == [q |-> q, a |-> a, onError |-> onError]

\* the statements of queryWithOptions: with count set, the create of the temp
\* table, the count on it and the select from it; else the select
queryStatements(values, tableName, count) ==
    IF count
    THEN LET create == <<"create temp table as select", tableName, "m">>
             final == <<"select", tableName>>
         IN  << Stmt(create, values, Error(create, <<tableName>>)),
                Stmt(<<"select count()", tableName>>, <<>>, Error(<<>>, <<tableName>>)),
                Stmt(final, values, Error(final, values)) >>
    ELSE << Stmt(<<"select", "m">>, values, Error(<<"select", "m">>, values)) >>

\* the statements of syncManyToManyRelation for one stored link that is
\* deleted and one new link that is inserted
relationStatements(pk) ==
    << Stmt(<<"select", "peers">>, <<pk>>, Error(<<"select", "peers">>, <<pk>>)),
       Stmt(<<"insert", "peers">>, <<pk, 1>>, Error(<<"insert", "peers">>, <<pk, 1>>)),
       Stmt(<<"delete", "peers">>, <<pk, 2>>, Error(<<"delete", "peers">>, <<pk, 2>>)) >>

\* the statements of an operation whose bound values are given
StatementsOf(op, values, tableName) ==
    CASE op \in {"QueryStruct", "QuerySlice"} -> queryStatements(values, tableName, FALSE)
      [] op = "QuerySliceCount" -> queryStatements(values, tableName, TRUE)
      [] op = "Count" -> << Stmt(<<"select count(*)", "m">>, values, PlainError) >>
      [] op = "Upsert" ->
            << Stmt(<<"insert on conflict", "m">>, values,
                    Error(<<"insert on conflict", "m">>, values)),
               Stmt(<<"select rowid", "m">>, values, Error(<<"select rowid", "m">>, values)) >>
            \o relationStatements(1)
      [] op = "Update" ->
            << Stmt(<<"update", "m">>, values, Error(<<"update", "m">>, values)) >>
      [] op = "UpdateDeep" ->
            << Stmt(<<"update", "m">>, values, Error(<<"update", "m">>, values)) >>
            \o relationStatements(1)
      [] op = "Delete" ->
            << Stmt(<<"delete", "m">>, values, Error(<<"delete", "m">>, values)) >>

\* the statement the operation is about to execute
Due == StatementsOf(report.op, report.values, report.tableName)

Running == report.op # "none" /\ report.ret = <<"running">>

\* the statement is executed; after the last one the operation returns nil
ExecSucceeds ==
    /\ Running
    /\ report.at <= Len(Due)
    /\ report' = [report EXCEPT !.at = @ + 1,
                                !.ret = IF report.at = Len(Due) THEN <<"nil">> ELSE @]
    /\ UNCHANGED <<notReport, query, reload, graph, nilcall>>

\* ExecContext, QueryContext or QueryRow returns an error for the statement
ExecFails ==
    /\ Running
    /\ report.at <= Len(Due)
    /\ report' = [report EXCEPT !.ret = Due[report.at].onError]
    /\ UNCHANGED <<notReport, query, reload, graph, nilcall>>

InitReport ==
    /\ IdleSync
    /\ IdleLoad
    /\ IdleWrite
    /\ IdleHm
    /\ IdleRead
    /\ IdleNested
    /\ IdleTrip
    /\ IdleQuery
    /\ IdleReload
    /\ IdleGraph
    /\ IdleNilCall
    /\ \E op \in ReportOps, values \in SeqsUpTo(1..MaxVal, 2), t \in TempTableNames :
          report = [op |-> op, values |-> values, tableName |-> t, at |-> 1,
                    ret |-> <<"running">>]

NextReport == ExecSucceeds \/ ExecFails

SpecReport == InitReport /\ [][NextReport]_vars

\* the operation returned because its statement failed
StatementFailed == report.op # "none" /\ report.ret \notin {<<"running">>, <<"nil">>}

\* the failed statement is reported as it was executed
ReportedAsExecuted ==
    report.ret = Error(Due[report.at].q, Due[report.at].a)

\* C22: every failure of a statement in a read, a count, an upsert, an
\* update or a delete is returned as an Error value whose Query is the SQL
\* text that was executed and whose Args are the values that were bound,
\* the temp-table count path of QuerySliceCount and Count included
FailureReportsStatement ==
    StatementFailed => ReportedAsExecuted

\* the same for the operations that neither count nor take the temp-table path
FailureReportsStatementWithoutCount ==
    (StatementFailed /\ report.op \notin {"QuerySliceCount", "Count"}) => ReportedAsExecuted

\* the create of the temp table failed with values bound to it
CreateTempFailed ==
    /\ StatementFailed
    /\ report.op = "QuerySliceCount"
    /\ report.at = 1
    /\ report.values # <<>>
    /\ report.ret = Error(Due[1].q, <<report.tableName>>)

\* the delete of a link failed in a deep update and was reported as executed
RelationDeleteFailed ==
    /\ StatementFailed
    /\ report.op = "UpdateDeep"
    /\ report.at = 4
    /\ ReportedAsExecuted
(***************************************************************************)
(* Reads with search options.  The table m has the integer columns a and b *)
(* and a text column t, a text being the sequence of the codes of its      *)
(* letters (x is 1, y is 2) and a single value a sequence of one; some of  *)
(* its rows are linked to the record 1 of a related type through the       *)
(* junction table peers.  Options is a pointer: what a call assigns to its *)
(* fields, or stores in its Where map, the caller sees.                    *)
(***************************************************************************)
AND == " and "
OR == " or "

Dividers == {"", AND, OR}

\* a row of m
MRow(a, b) == [a |-> a, b |-> b, t |-> IF a = 1 THEN <<1>> ELSE <<1, 2>>]

MRows == {MRow(a, b) : a \in 1..MaxVal, b \in 1..MaxVal}

\* an entry of a Where map: the key, the shape of the value, the value
Pred(key, kind, v) == [key |-> key, kind |-> kind, v |-> v]

\* the entry addWhereClause stores for the related record 1
RelatedPred == Pred("peers.rel_id", "value", <<1>>)

\* the join the related-to filter appends to opts.joins
RelatedJoin == " left join peers on m.id = peers.m_id"

\* the entries a caller writes: single values, operator-wrapped values,
\* nil, texts, single-key collections, tuple-key collections
CallerPreds ==
    {Pred("a", "value", <<v>>) : v \in 1..MaxVal}
    \cup {Pred("b", "NotEqual", <<1>>), Pred("b", "Greater", <<1>>), Pred("b", "nil", <<>>)}
    \cup {Pred("t", "string", <<2>>), Pred("t", "StrictString", <<1>>)}
    \cup {Pred("a", "slice", vs) : vs \in {<<1>>, <<1, 2>>}}
    \cup {Pred("a,b", "slice", vs) : vs \in {<<1, 1>>, <<1, 1, 2, 2>>, <<1, 2, 2, 1>>}}

\* the Where maps a caller writes: at most two entries, of different keys
WhereMaps ==
    {W \in SubsetsUpTo(CallerPreds, 2) : \A x, y \in W : x.key = y.key => x = y}

\* strings.Contains(k, ",")
IsTupleKey(key) == key = "a,b"

\* the number of value tuples of a tuple-key collection
rowValueCount == 2

\* the value of a column of a row of m left-joined with peers
ColumnOf(row, key, linked) ==
    IF key = "peers.rel_id" THEN (IF row \in linked THEN 1 ELSE 0) ELSE row[key]

\* the conditions one entry adds to the statement, as predicates of a row;
\* a tuple-key collection adds one for each of its tuples
WhereConditions(pr) ==
    IF pr.kind = "slice" /\ IsTupleKey(pr.key)
    THEN [i \in 1..(Len(pr.v) \div rowValueCount) |->
             [kind |-> "tuple", key |-> pr.key,
              v |-> SubSeq(pr.v, rowValueCount * (i - 1) + 1, rowValueCount * i)]]
    ELSE << pr >>

\* a row satisfies a condition
ConditionTrue(c, row, linked) ==
    CASE c.kind = "tuple" -> row.a = c.v[1] /\ row.b = c.v[2]
      [] c.kind = "value" -> ColumnOf(row, c.key, linked) = c.v[1]
      [] c.kind = "NotEqual" -> row[c.key] # c.v[1]
      [] c.kind = "Greater" -> row[c.key] > c.v[1]
      [] c.kind = "nil" -> FALSE
      [] c.kind = "string" -> Contains(row[c.key], c.v)
      [] c.kind = "StrictString" -> row[c.key] = c.v
      [] c.kind = "slice" -> \E i \in DOMAIN c.v : row[c.key] = c.v[i]

\* the number of conditions of a Where map
ConditionCount(W) == SumOver([pr \in W |-> Len(WhereConditions(pr))], W)

\* the execution of select ... where c1 <divider> c2 ...: a statement whose
\* conditions are put together with the empty divider does not parse
ExecWhere(tbl, linked, W, divider) ==
    LET all == UNION {Range(WhereConditions(pr)) : pr \in W}
    IN  IF ConditionCount(W) > 1 /\ divider = ""
        THEN [err |-> "syntax error", rows |-> {}]
        ELSE [err |-> "nil",
              rows |-> {r \in tbl :
                          \/ all = {}
                          \/ divider = OR /\ \E c \in all : ConditionTrue(c, r, linked)
                          \/ divider # OR /\ \A c \in all : ConditionTrue(c, r, linked)}]

\* a Where map has a tuple-key collection
HasTupleKey(W) == \E pr \in W : pr.kind = "slice" /\ IsTupleKey(pr.key)

\* the Options a call is made with
Options(W, divider, rel) ==
    [Where |-> W, Divider |-> divider, RelatedTo |-> rel, joins |-> <<>>]

\* the related-to filter of QuerySliceCountContext and of Count:
\* addWhereClause stores the key of the related record in opts.Where, the
\* join is appended to opts.joins
relatedTo(o) ==
    IF o.RelatedTo
    THEN [o EXCEPT !.Where = {pr \in @ : pr.key # RelatedPred.key} \cup {RelatedPred},
                   !.joins = Append(@, RelatedJoin)]
    ELSE o

\* queryWithOptions: opts.Divider is set to OR when a tuple-key collection
\* is met, the conditions are joined by opts.Divider after that
queryWithOptionsOf(tbl, linked, o) ==
    LET o1 == IF HasTupleKey(o.Where) THEN [o EXCEPT !.Divider = OR] ELSE o
        r == ExecWhere(tbl, linked, o1.Where, o1.Divider)
    IN  [opts |-> o1, err |-> r.err, rows |-> r.rows]

\* QueryStructContext: the related-to filter fills a map of its own only
queryStruct(tbl, linked, o) ==
    queryWithOptionsOf(tbl, linked, o)

\* QuerySliceCountContext: the related-to filter, queryWithOptions, and
\* opts.joins = nil when the statement did not fail
querySlice(tbl, linked, o) ==
    LET r == queryWithOptionsOf(tbl, linked, relatedTo(o))
    IN  IF r.err # "nil" THEN r
        ELSE [r EXCEPT !.opts.joins = <<>>]

\* Count: the related-to filter, then the conditions, every one followed by
\* the divider that opts.Divider was before the loop; opts.Divider is set
\* to OR when a tuple-key collection is met
count(tbl, linked, o) ==
    LET o1 == relatedTo(o)
        o2 == IF HasTupleKey(o1.Where) THEN [o1 EXCEPT !.Divider = OR] ELSE o1
        r == ExecWhere(tbl, linked, o1.Where, o1.Divider)
    IN  IF Cardinality(o1.Where) > 1 /\ o1.Divider = ""
        THEN [opts |-> o1, err |-> "empty divider with multiple conditions", rows |-> {}]
        ELSE [opts |-> o2, err |-> r.err, rows |-> r.rows]

\* the call returns
Returned(r) ==
    query' = [query EXCEPT !.pc = "done", !.after = r.opts, !.rows = r.rows,
                           !.n = Cardinality(r.rows), !.err = r.err]

QueryStructCall ==
    /\ query.pc = "call"
    /\ query.op = "QueryStruct"
    /\ Returned(queryStruct(query.table, query.linked, query.opts))
    /\ UNCHANGED <<notReport, report, reload, graph, nilcall>>

QuerySliceCall ==
    /\ query.pc = "call"
    /\ query.op \in {"QuerySlice", "QuerySliceCount"}
    /\ Returned(querySlice(query.table, query.linked, query.opts))
    /\ UNCHANGED <<notReport, report, reload, graph, nilcall>>

CountCall ==
    /\ query.pc = "call"
    /\ query.op = "Count"
    /\ Returned(count(query.table, query.linked, query.opts))
    /\ UNCHANGED <<notReport, report, reload, graph, nilcall>>

InitQuery ==
    /\ IdleSync
    /\ IdleLoad
    /\ IdleWrite
    /\ IdleHm
    /\ IdleRead
    /\ IdleNested
    /\ IdleTrip
    /\ IdleReport
    /\ IdleReload
    /\ IdleGraph
    /\ IdleNilCall
    /\ \E op \in {"QueryStruct", "QuerySlice", "QuerySliceCount", "Count"} :
       \E tbl \in SubsetsUpTo(MRows, MaxStored) :
       \E linked \in SUBSET tbl :
       \E W \in WhereMaps, divider \in Dividers, rel \in BOOLEAN :
          query = [op |-> op, pc |-> "call", table |-> tbl, linked |-> linked,
                   opts |-> Options(W, divider, rel), after |-> <<>>,
                   rows |-> {}, n |-> 0, err |-> ""]

NextQuery == QueryStructCall \/ QuerySliceCall \/ CountCall

SpecQuery == InitQuery /\ [][NextQuery]_vars

\* C25: a read leaves the caller's Options as they were: after QueryStruct,
\* QuerySlice, QuerySliceCount or Count, whether it failed or not, the
\* Where map, the divider and the join list are what they were before the
\* call, a tuple-key collection and a related-to filter included
ReadLeavesOptions ==
    query.pc = "done" => query.after = query.opts

\* the same for the calls that have neither a tuple-key collection nor a
\* related-to filter
ReadLeavesPlainOptions ==
    (query.pc = "done" /\ ~HasTupleKey(query.opts.Where) /\ ~query.opts.RelatedTo)
        => query.after = query.opts

\* QuerySlice with a tuple-key collection and the divider AND returned
\* rows, and the caller's divider is OR
TupleKeyChangedDivider ==
    /\ query.pc = "done"
    /\ query.op = "QuerySlice"
    /\ query.err = "nil"
    /\ query.opts.Divider = AND
    /\ ~query.opts.RelatedTo
    /\ query.after.Divider = OR
    /\ query.after.Where = query.opts.Where
    /\ query.rows # {}

\* Count with a related-to filter left its join and its condition in the
\* caller's Options
CountLeftJoin ==
    /\ query.pc = "done"
    /\ query.op = "Count"
    /\ query.err = "nil"
    /\ query.after.joins = <<RelatedJoin>>
    /\ RelatedPred \in query.after.Where \ query.opts.Where

\* what QuerySlice returns for the Options of the call
SliceOfCall == querySlice(query.table, query.linked, query.opts)

\* C29: Count agrees with QuerySlice: for the same predicate map and
\* divider, no limit and no offset, Count returns the number of rows that
\* QuerySlice returns, for single values, texts, operator-wrapped values,
\* nil, single-key collections, tuple-key collections of two or more tuples
\* and maps of more than one predicate
CountAgreesWithQuerySlice ==
    (query.pc = "done" /\ query.op = "Count") =>
        /\ query.err = "nil" <=> SliceOfCall.err = "nil"
        /\ query.err = "nil" => query.n = Cardinality(SliceOfCall.rows)

\* the same for the maps that have no tuple-key collection
CountAgreesWithoutTupleKey ==
    (query.pc = "done" /\ query.op = "Count" /\ ~HasTupleKey(query.opts.Where)) =>
        /\ query.err = "nil" <=> SliceOfCall.err = "nil"
        /\ query.err = "nil" => query.n = Cardinality(SliceOfCall.rows)

\* Count of two tuples under the divider AND returned 0 while QuerySlice
\* returns the two rows
CountOfTwoTuplesIsZero ==
    /\ query.pc = "done"
    /\ query.op = "Count"
    /\ query.err = "nil"
    /\ query.opts = Options({Pred("a,b", "slice", <<1, 1, 2, 2>>)}, AND, FALSE)
    /\ query.n = 0
    /\ SliceOfCall.err = "nil"
    /\ Cardinality(SliceOfCall.rows) = 2

\* Count of a map of two predicates and of a text agreed with QuerySlice
CountOfTwoPredicatesAgreed ==
    /\ query.pc = "done"
    /\ query.op = "Count"
    /\ query.err = "nil"
    /\ Cardinality(query.opts.Where) = 2
    /\ \E pr \in query.opts.Where : pr.kind = "string"
    /\ query.n = 1
    /\ Cardinality(query.table) = 2
    /\ query.n = Cardinality(SliceOfCall.rows)

(***************************************************************************)
(* A record instance that is loaded more than once.  The record has a      *)
(* many-to-many collection Peers and a has-many collection Children; the   *)
(* caller calls QueryStruct with the same Options and the same instance    *)
(* again, the database unchanged.  The records of the collections are      *)
(* their keys.                                                             *)
(***************************************************************************)
\* the key of a record the caller's instance may hold before the first load
HeldBefore == MaxTarget + 1

\* the loads the caller makes
MaxLoads == 2

\* the rows of a select, in the order of their keys
RECURSIVE RowsInOrder(_)
RowsInOrder(S) ==
    IF S = {} THEN <<>>
    ELSE LET least == CHOOSE x \in S : \A y \in S : x <= y
         IN  <<least>> \o RowsInOrder(S \ {least})

\* QuerySliceCountContext into the field of a collection: every row is
\* appended to the slice as it is; loadRelationsForSlice then walks the
\* slice with the column info of the rows of this call, one entry for a
\* row, and indexes past it when the slice held elements before
querySliceInto(field, rows, depth) ==
    [field |-> field \o RowsInOrder(rows),
     err |-> IF depth # 0 /\ Len(field) > 0
             THEN "panic: index out of range"
             ELSE "nil"]

\* loadManyToManyRelation: the select on the junction table; with no row
\* it returns, else QuerySlice of the targets into the field
loadManyToManyInto(field, links, depth) ==
    IF links = {} THEN [field |-> field, err |-> "nil"]
    ELSE querySliceInto(field, links, depth - 1)

\* loadHasManyRelation: QuerySlice of the children of the record into the
\* field
loadHasManyInto(field, kids, depth) ==
    querySliceInto(field, kids, depth - 1)

\* loadStructRelations: the relations in the order the map iteration takes;
\* the first error ends the call
loadStructRelationsInto(r, m2mFirst) ==
    LET p == loadManyToManyInto(r.peers, r.links, r.depth)
        c == loadHasManyInto(r.children, r.kids, r.depth)
    IN  IF m2mFirst
        THEN IF p.err # "nil"
             THEN [r EXCEPT !.peers = p.field, !.err = p.err]
             ELSE [r EXCEPT !.peers = p.field, !.children = c.field, !.err = c.err]
        ELSE IF c.err # "nil"
             THEN [r EXCEPT !.children = c.field, !.err = c.err]
             ELSE [r EXCEPT !.children = c.field, !.peers = p.field, !.err = p.err]

\* QueryStruct of the record into the instance
LoadAgain ==
    /\ reload.loads \in 0..(MaxLoads - 1)
    /\ reload.depth # 0
    /\ reload.err \in {"", "nil"}
    /\ \E m2mFirst \in BOOLEAN :
          LET r == loadStructRelationsInto(reload, m2mFirst)
          IN  reload' = [r EXCEPT !.loads = @ + 1,
                                  !.first = IF reload.loads = 0
                                            THEN <<r.peers, r.children>> ELSE @]
    /\ UNCHANGED <<notReport, report, query, graph, nilcall>>

InitReload ==
    /\ IdleSync
    /\ IdleLoad
    /\ IdleWrite
    /\ IdleHm
    /\ IdleRead
    /\ IdleNested
    /\ IdleTrip
    /\ IdleReport
    /\ IdleQuery
    /\ IdleGraph
    /\ IdleNilCall
    /\ \E links \in SUBSET Targets, kids \in SUBSET (1..MaxChildren) :
       \E depth \in 1..MaxDepth :
       \E heldPeers \in {<<>>, <<HeldBefore>>}, heldChildren \in {<<>>, <<HeldBefore>>} :
          reload = [links |-> links, kids |-> kids, depth |-> depth,
                    peers |-> heldPeers, children |-> heldChildren, first |-> <<>>,
                    loads |-> 0, err |-> ""]

NextReload == LoadAgain

SpecReload == InitReload /\ [][NextReload]_vars

\* C26: loading is idempotent on the output: after the same record was
\* loaded twice into the same instance its has-many and many-to-many
\* collections are what they were after the first load, no element is
\* there twice; and a many-to-many collection of a record without stored
\* links is empty after a load, whatever the field held before
LoadIsIdempotent ==
    /\ reload.loads = MaxLoads =>
          /\ reload.err = "nil"
          /\ <<reload.peers, reload.children>> = reload.first
    /\ (reload.loads > 0 /\ reload.links = {}) => reload.peers = <<>>

\* the first load into an instance whose collections are empty: they hold
\* the stored records, each once
FirstLoadIntoEmptyInstance ==
    (reload.loads = 1 /\ HeldBefore \notin Range(reload.peers) \cup Range(reload.children))
        => /\ reload.err = "nil"
           /\ reload.first = <<RowsInOrder(reload.links), RowsInOrder(reload.kids)>>

\* the second load ended without an error and both collections hold every
\* record twice
SecondLoadAccumulated ==
    /\ reload.loads = MaxLoads
    /\ reload.err = "nil"
    /\ reload.links # {}
    /\ reload.kids # {}
    /\ reload.first = <<RowsInOrder(reload.links), RowsInOrder(reload.kids)>>
    /\ reload.peers = reload.first[1] \o reload.first[1]
    /\ reload.children = reload.first[2] \o reload.first[2]

\* a record without stored links was loaded and its collection holds what
\* it held before
HeldElementsKept ==
    /\ reload.loads = 1
    /\ reload.err = "nil"
    /\ reload.links = {}
    /\ reload.peers = <<HeldBefore>>

(***************************************************************************)
(* Upsert of a record of a graph of records.  Every record has a primary   *)
(* field, a regular field and a has-one field that is nil or points to a   *)
(* record of the graph, itself included.  A call of inserter.insert is a   *)
(* frame of the goroutine's stack; the stack of a goroutine has a limit,   *)
(* here MaxStack frames, beyond which the program ends with a fatal error. *)
(***************************************************************************)
GraphNodes == 1..MaxNode

\* the nil pointer
Nil == 0

\* the frames the stack of the goroutine has room for
MaxStack == MaxNode + 2

\* the rowid a record gets when its row is inserted
RowidOf(n) == MaxNode + n

Frame(n, at) == [n |-> n, at |-> at]

\* the call at the top of the stack
TopFrame == graph.stack[Len(graph.stack)]

\* the stack with the top frame at another position
TopAt(at) == [graph.stack EXCEPT ![Len(graph.stack)] = Frame(TopFrame.n, at)]

\* syncHasOneRelation of a record: nothing for a nil pointer and for a
\* target that has a primary key; else insert of the target
NeedsInsert(n) ==
    /\ graph.one[n] # Nil
    /\ graph.pk[graph.one[n]] = 0

Upserting == graph.state = "running" /\ graph.stack # <<>>

\* inserter.insert, the loop over the has-one fields before the statement:
\* syncHasOneRelation with an inserter of its own
InsertHasOne ==
    /\ Upserting
    /\ TopFrame.at = "hasOne"
    /\ IF NeedsInsert(TopFrame.n)
       THEN /\ Len(graph.stack) < MaxStack
            /\ graph' = [graph EXCEPT
                            !.stack = Append(TopAt("exec"), Frame(graph.one[TopFrame.n], "hasOne"))]
       ELSE graph' = [graph EXCEPT !.stack = TopAt("exec")]
    /\ UNCHANGED <<notReport, report, query, reload, nilcall>>

\* the call that would be made has no room on the stack
StackOverflow ==
    /\ Upserting
    /\ TopFrame.at \in {"hasOne", "sync"}
    /\ NeedsInsert(TopFrame.n)
    /\ Len(graph.stack) = MaxStack
    /\ graph' = [graph EXCEPT !.state = "fatal error: stack overflow"]
    /\ UNCHANGED <<notReport, report, query, reload, nilcall>>

\* inserter.insert, the statement and setModelPk
InsertExec ==
    /\ Upserting
    /\ TopFrame.at = "exec"
    /\ graph' = [graph EXCEPT
                    !.stack = TopAt("sync"),
                    !.inserted[TopFrame.n] = @ + 1,
                    !.pk[TopFrame.n] = IF @ = 0 THEN RowidOf(TopFrame.n) ELSE @]
    /\ UNCHANGED <<notReport, report, query, reload, nilcall>>

\* inserter.insert, syncRelations: syncHasOneRelation of the has-one field
\* and, when that has returned, the return of the call
InsertSync ==
    /\ Upserting
    /\ TopFrame.at \in {"sync", "return"}
    /\ IF TopFrame.at = "sync" /\ NeedsInsert(TopFrame.n)
       THEN /\ Len(graph.stack) < MaxStack
            /\ graph' = [graph EXCEPT
                            !.stack = Append(TopAt("return"), Frame(graph.one[TopFrame.n], "hasOne"))]
       ELSE LET rest == SubSeq(graph.stack, 1, Len(graph.stack) - 1)
            IN  graph' = [graph EXCEPT !.stack = rest,
                                       !.state = IF rest = <<>> THEN "returned" ELSE @]
    /\ UNCHANGED <<notReport, report, query, reload, nilcall>>

\* Upsert of a record of a graph whose records are stored or not
InitGraph ==
    /\ IdleSync
    /\ IdleLoad
    /\ IdleWrite
    /\ IdleHm
    /\ IdleRead
    /\ IdleNested
    /\ IdleTrip
    /\ IdleReport
    /\ IdleQuery
    /\ IdleReload
    /\ IdleNilCall
    /\ \E one \in [GraphNodes -> {Nil} \cup GraphNodes] :
       \E pk \in [GraphNodes -> {0, 1}] :
       \E root \in GraphNodes :
          graph = [one |-> one,
                   pk |-> [n \in GraphNodes |-> IF pk[n] = 0 THEN 0 ELSE RowidOf(n)],
                   stack |-> <<Frame(root, "hasOne")>>,
                   inserted |-> [n \in GraphNodes |-> 0],
                   state |-> "running"]

NextGraph == InsertHasOne \/ StackOverflow \/ InsertExec \/ InsertSync

SpecGraph == InitGraph /\ [][NextGraph]_vars

\* a record without a primary key is reached from itself through has-one
\* fields of records without a primary key
RECURSIVE ReachesUnsaved(_, _, _)
ReachesUnsaved(from, to, steps) ==
    /\ steps > 0
    /\ graph.one[from] # Nil
    /\ graph.pk[graph.one[from]] = 0
    /\ \/ graph.one[from] = to
       \/ ReachesUnsaved(graph.one[from], to, steps - 1)

\* C27: Upsert ends for every finite graph of records: the recursion
\* through the has-one fields of records without a primary key is no deeper
\* than the graph has records, also when the has-one pointers of such
\* records form a cycle or a record points to itself, and the statement of
\* every record is executed at most once
UpsertEnds ==
    /\ graph.state # "fatal error: stack overflow"
    /\ Len(graph.stack) <= MaxNode
    /\ \A n \in DOMAIN graph.inserted : graph.inserted[n] <= 1

\* the same for the graphs in which no record without a primary key is
\* reached from itself
UpsertEndsWithoutCycle ==
    LET cycle == \E n \in GraphNodes : graph.pk[n] = 0 /\ ReachesUnsaved(n, n, MaxNode)
    IN  /\ graph.state = "fatal error: stack overflow" => cycle
        /\ Len(graph.stack) > MaxNode => cycle
        /\ \A n \in DOMAIN graph.inserted : graph.inserted[n] <= 1

\* Upsert of a record without a primary key that points to itself ran out
\* of stack before a statement was executed
SelfReferenceOverflowed ==
    /\ graph.state = "fatal error: stack overflow"
    /\ \E n \in GraphNodes :
          /\ graph.one[n] = n
          /\ graph.pk[n] = 0
          /\ \A i \in DOMAIN graph.stack : graph.stack[i].n = n
    /\ \A n \in GraphNodes : graph.inserted[n] = 0

\* Upsert of a record that points to a record without a primary key which
\* points to nothing inserted both, the target first
ChainInserted ==
    /\ graph.state = "returned"
    /\ graph.one[1] = 2
    /\ graph.one[2] = Nil
    /\ graph.inserted = [n \in GraphNodes |-> 1]
    /\ graph.pk = [n \in GraphNodes |-> RowidOf(n)]

(***************************************************************************)
(* Reads whose Options are nil.  The record type has some of the relation  *)
(* fields has-one, has-many and many-to-many; for the record that is read  *)
(* some of them have something stored: a has-one column that is not NULL,  *)
(* children, junction rows.  Every loader of loadStructRelations that is   *)
(* given nil Options either returns before it reads them or dereferences   *)
(* them, so that the order the map of relations is walked in makes no      *)
(* difference.                                                             *)
(***************************************************************************)
RelationKinds == {"hasOne", "hasMany", "manyToMany"}

\* the nil *Options
NilOptions == <<"nil">>

\* &Options{RelationDepth: d}
OptionsOfDepth(d) == <<"options", d>>

NilDereference == "panic: invalid memory address or nil pointer dereference"

\* a loader of a relation, given Options that are not nil: the records
\* that are stored are loaded
loaderOf(kind, stored) == IF kind \in stored THEN {kind} ELSE {}

\* a loader given nil Options: loadHasOneRelation returns when the scanned
\* key is nil and loadManyToManyRelation when the junction select has no
\* row, before options.RelationDepth is read; loadHasManyRelation always
\* reads it
loaderOfNil(kind, stored) ==
    IF kind = "hasMany" \/ kind \in stored THEN NilDereference ELSE "nil"

\* loadStructRelations: the relations are loaded when opts is nil or its
\* RelationDepth is not 0
loadStructRelationsOf(fields, stored, opts) ==
    IF opts = NilOptions
    THEN [loaded |-> {},
          err |-> IF \E k \in fields : loaderOfNil(k, stored) # "nil"
                  THEN NilDereference ELSE "nil"]
    ELSE IF opts[2] # 0
    THEN [loaded |-> UNION {loaderOf(k, stored) : k \in fields}, err |-> "nil"]
    ELSE [loaded |-> {}, err |-> "nil"]

\* loadRelationsForSlice: the relations are loaded when opts is not nil and
\* its RelationDepth is not 0
loadRelationsForSliceOf(fields, stored, opts) ==
    IF opts # NilOptions /\ opts[2] # 0
    THEN [loaded |-> UNION {loaderOf(k, stored) : k \in fields}, err |-> "nil"]
    ELSE [loaded |-> {}, err |-> "nil"]

\* QueryStruct of the record
QueryStructOfRecord ==
    /\ nilcall.op = "QueryStruct"
    /\ nilcall.err = ""
    /\ LET r == loadStructRelationsOf(nilcall.fields, nilcall.stored, nilcall.opts)
       IN  nilcall' = [nilcall EXCEPT !.loaded = r.loaded, !.err = r.err]
    /\ UNCHANGED <<notReport, report, query, reload, graph>>

\* QuerySlice that finds the record
QuerySliceOfRecord ==
    /\ nilcall.op = "QuerySlice"
    /\ nilcall.err = ""
    /\ LET r == loadRelationsForSliceOf(nilcall.fields, nilcall.stored, nilcall.opts)
       IN  nilcall' = [nilcall EXCEPT !.loaded = r.loaded, !.err = r.err]
    /\ UNCHANGED <<notReport, report, query, reload, graph>>

InitNilCall ==
    /\ IdleSync
    /\ IdleLoad
    /\ IdleWrite
    /\ IdleHm
    /\ IdleRead
    /\ IdleNested
    /\ IdleTrip
    /\ IdleReport
    /\ IdleQuery
    /\ IdleReload
    /\ IdleGraph
    /\ \E fields \in SUBSET RelationKinds :
       \E stored \in SUBSET fields :
       \E op \in {"QueryStruct", "QuerySlice"} :
       \E opts \in {NilOptions} \cup {OptionsOfDepth(d) : d \in 0..MaxDepth} :
          nilcall = [fields |-> fields, stored |-> stored, op |-> op,
                     opts |-> opts, loaded |-> {}, err |-> ""]

NextNilCall == QueryStructOfRecord \/ QuerySliceOfRecord

SpecNilCall == InitNilCall /\ [][NextNilCall]_vars

\* the read has ended
NilCallEnded == nilcall.op # "none" /\ nilcall.err # ""

\* C30: nil Options are handled the same by both loaders: QueryStruct and
\* QuerySlice with nil Options of a record type that has has-one, has-many
\* or many-to-many fields both end without a crash, and both load the same
\* relations
NilOptionsHandledAlike ==
    (NilCallEnded /\ nilcall.opts = NilOptions) =>
        /\ nilcall.err = "nil"
        /\ nilcall.loaded =
              loadRelationsForSliceOf(nilcall.fields, nilcall.stored, nilcall.opts).loaded
        /\ nilcall.loaded =
              loadStructRelationsOf(nilcall.fields, nilcall.stored, nilcall.opts).loaded

\* the same for Options that are not nil
OptionsHandledAlike ==
    (NilCallEnded /\ nilcall.opts # NilOptions) =>
        /\ nilcall.err = "nil"
        /\ nilcall.loaded =
              loadRelationsForSliceOf(nilcall.fields, nilcall.stored, nilcall.opts).loaded
        /\ nilcall.loaded =
              loadStructRelationsOf(nilcall.fields, nilcall.stored, nilcall.opts).loaded

\* QueryStruct with nil Options of a record with a has-one field whose
\* column holds a key ended with a nil dereference, where QuerySlice ends
\* without an error
StructLoaderDereferencedNil ==
    /\ NilCallEnded
    /\ nilcall.op = "QueryStruct"
    /\ nilcall.opts = NilOptions
    /\ nilcall.fields = {"hasOne"}
    /\ nilcall.stored = {"hasOne"}
    /\ nilcall.err = NilDereference
    /\ loadRelationsForSliceOf(nilcall.fields, nilcall.stored, nilcall.opts).err = "nil"

\* QuerySlice with nil Options of a record that has stored relations of
\* every kind ended and loaded none
SliceLoaderSkippedRelations ==
    /\ NilCallEnded
    /\ nilcall.op = "QuerySlice"
    /\ nilcall.opts = NilOptions
    /\ nilcall.stored = RelationKinds
    /\ nilcall.err = "nil"
    /\ nilcall.loaded = {}

=============================================================================
